---- MODULE Spec2Model ----
(***************************************************************************)
(* WordWise text-analysis engine: GrammarEngine.checkText, the enhanced    *)
(* style processor with its result cache, the suggestion validator with    *)
(* its validation cache, the sentence/context analyzer and the dictionary  *)
(* spelling check.                                                         *)
(*                                                                         *)
(* Texts are TLA+ strings.  Offsets are 0-based as in the TypeScript       *)
(* source; Substring/CharAt convert to the 1-based SubSeq.  Confidences    *)
(* are exact decimals: rule priors in hundredths, suggestion confidences   *)
(* scaled so that 1.0 = ONE.                                               *)
(***************************************************************************)
EXTENDS Integers, Sequences, FiniteSets, TLC

(***************************************************************************)
(* String primitives (JavaScript String and RegExp character classes)      *)
(***************************************************************************)
LOWER == "abcdefghijklmnopqrstuvwxyz"
UPPER == "ABCDEFGHIJKLMNOPQRSTUVWXYZ"
DIGITS == "0123456789"
CharsOf(s) == { SubSeq(s, i, i) : i \in 1..Len(s) }
LowerSet == CharsOf(LOWER)
UpperSet == CharsOf(UPPER)
DigitSet == CharsOf(DIGITS)
WordSet == LowerSet \cup UpperSet \cup DigitSet \cup {"_"}
SpaceSet == {" ", "\n", "\t"}
TermSet == {".", "!", "?"}

\* `const x = v` followed by code that reads x: With(v, LAMBDA x : ...)
With(v, F(_)) == F(v)

Min(a, b) == IF a < b THEN a ELSE b
Max(a, b) == IF a > b THEN a ELSE b

\* String.prototype.substring(a, b): arguments clamped to [0, length], swapped if a > b
Substring(s, a, b) ==
  LET ca == Max(0, Min(Len(s), a))
      cb == Max(0, Min(Len(s), b))
  IN  SubSeq(s, Min(ca, cb) + 1, Max(ca, cb))

SubstringFrom(s, a) == Substring(s, a, Len(s))

\* String.prototype.charAt(i): "" when out of range
CharAt(s, i) == IF i >= 0 /\ i < Len(s) THEN SubSeq(s, i + 1, i + 1) ELSE ""

IsSpace(c) == c \in SpaceSet
IsWordChar(c) == c \in WordSet

LowerCharMap == [ c \in UpperSet |-> LET i == CHOOSE k \in 1..26 : SubSeq(UPPER, k, k) = c IN SubSeq(LOWER, i, i) ]
UpperCharMap == [ c \in LowerSet |-> LET i == CHOOSE k \in 1..26 : SubSeq(LOWER, k, k) = c IN SubSeq(UPPER, i, i) ]
LowerChar(c) == IF c \in UpperSet THEN LowerCharMap[c] ELSE c
UpperChar(c) == IF c \in LowerSet THEN UpperCharMap[c] ELSE c

\* String.prototype.toLowerCase, computed by halves
RECURSIVE ToLowerCase(_)
ToLowerCase(s) ==
  IF Len(s) = 0 THEN ""
  ELSE IF Len(s) = 1 THEN LowerChar(s)
  ELSE ToLowerCase(SubSeq(s, 1, Len(s) \div 2)) \o ToLowerCase(SubSeq(s, Len(s) \div 2 + 1, Len(s)))

IndexIn(s, c) == CHOOSE k \in 1..Len(s) : SubSeq(s, k, k) = c
PunctCode == [ c \in {" ", "!", "'", ",", "-", ".", ":", ";", "?", "_", "\n", "\t"} |->
  CASE c = " " -> 32 [] c = "!" -> 33 [] c = "'" -> 39 [] c = "," -> 44 [] c = "-" -> 45
    [] c = "." -> 46 [] c = ":" -> 58 [] c = ";" -> 59 [] c = "?" -> 63 [] c = "_" -> 95
    [] c = "\n" -> 10 [] c = "\t" -> 9 ]
\* String.prototype.charCodeAt for the characters texts are built from
CharCode(c) ==
  IF c \in LowerSet THEN 96 + IndexIn(LOWER, c)
  ELSE IF c \in UpperSet THEN 64 + IndexIn(UPPER, c)
  ELSE IF c \in DigitSet THEN 47 + IndexIn(DIGITS, c)
  ELSE PunctCode[c]

StartsWith(s, p) == Len(p) <= Len(s) /\ SubSeq(s, 1, Len(p)) = p
EndsWith(s, p) == Len(p) <= Len(s) /\ SubSeq(s, Len(s) - Len(p) + 1, Len(s)) = p

\* String.prototype.includes
Includes(s, p) == \E i \in 0..(Len(s) - Len(p)) : Substring(s, i, i + Len(p)) = p

\* number of leading / trailing whitespace characters
RECURSIVE LeadingSpaces(_, _)
LeadingSpaces(s, i) == IF i < Len(s) /\ IsSpace(CharAt(s, i)) THEN LeadingSpaces(s, i + 1) ELSE i
RECURSIVE TrailingStart(_, _)
TrailingStart(s, j) == IF j > 0 /\ IsSpace(CharAt(s, j - 1)) THEN TrailingStart(s, j - 1) ELSE j

\* String.prototype.trim
Trim(s) ==
  LET a == LeadingSpaces(s, 0)
      b == TrailingStart(s, Len(s))
  IN  IF a >= b THEN "" ELSE Substring(s, a, b)

\* end of the maximal run of characters of class cls starting at i
RECURSIVE RunEnd(_, _, _)
RunEnd(s, i, cls) == IF i < Len(s) /\ CharAt(s, i) \in cls THEN RunEnd(s, i + 1, cls) ELSE i

MinOf(S) == CHOOSE x \in S : \A y \in S : x <= y
MaxOf(S) == CHOOSE x \in S : \A y \in S : x >= y

\* index of the first character of class cls at or after i, Len(s) if there is none
NextIn(s, i, cls) ==
  LET c == { j \in i..(Len(s) - 1) : CharAt(s, j) \in cls }
  IN  IF c = {} THEN Len(s) ELSE MinOf(c)

\* String.prototype.split(/\s+/): the pieces between maximal whitespace runs
\* (a leading or trailing run yields an empty first or last piece)
RECURSIVE SplitFrom(_, _)
SplitFrom(s, start) ==
  LET i == NextIn(s, start, SpaceSet)
  IN  IF i >= Len(s) THEN << Substring(s, start, Len(s)) >>
      ELSE << Substring(s, start, i) >> \o SplitFrom(s, RunEnd(s, i, SpaceSet))
SplitWS(s) == SplitFrom(s, 0)

\* the regular expression assertion \b at index i
IsBoundary(s, i) == IsWordChar(CharAt(s, i - 1)) # IsWordChar(CharAt(s, i))

SeqToSet(q) == { q[i] : i \in 1..Len(q) }
\* the members of a set of integers in increasing order
SortedSeq(S) == [ n \in 1..Cardinality(S) |-> CHOOSE x \in S : Cardinality({ y \in S : y < x }) = n - 1 ]

(***************************************************************************)
(* Sentence / context analyzer (lib/grammar-context)                       *)
(***************************************************************************)
COMMON_ABBREVIATIONS ==
  {"dr", "mr", "mrs", "ms", "prof", "vs", "etc", "inc", "ltd", "corp",
   "st", "ave", "blvd", "rd", "apt", "no", "vol", "pp", "ch", "sec",
   "fig", "ref", "eg", "ie", "cf", "al", "ed", "eds", "rev", "est",
   "approx", "min", "max", "avg", "temp", "dept", "govt", "assn",
   "bros", "co", "jr", "sr", "phd", "md", "ba", "ma", "bs"}

\* /[.!?]$/.test(s)
EndsWithTerminal(s) == Len(s) > 0 /\ CharAt(s, Len(s) - 1) \in TermSet

isCompleteSentence(text) ==
  LET trimmed == Trim(text)
      words == SplitWS(ToLowerCase(trimmed))
  IN  IF ~EndsWithTerminal(trimmed) THEN FALSE
      ELSE IF Len(trimmed) < 3 THEN FALSE
      ELSE IF Len(words) < 2 THEN FALSE
      ELSE TRUE

fragmentStarters ==
  {"because", "since", "although", "though", "while", "whereas",
   "if", "unless", "until", "when", "where", "after", "before",
   "as", "than", "that", "which", "who", "whom", "whose"}

isFragment(text) ==
  LET trimmed == Trim(text)
  IN  IF Len(trimmed) < 3 THEN TRUE
      ELSE IF ~EndsWithTerminal(trimmed) THEN TRUE
      ELSE IF SplitWS(ToLowerCase(trimmed))[1] \in fragmentStarters THEN TRUE
      ELSE ~isCompleteSentence(text)

\* start of the maximal run of word characters that ends at index j (exclusive)
RECURSIVE WordRunStart(_, _)
WordRunStart(s, j) == IF j > 0 /\ IsWordChar(CharAt(s, j - 1)) THEN WordRunStart(s, j - 1) ELSE j

\* beforePunctuation.match(/\b(\w+)$/): the word that ends the 10 characters before idx, "" if none
AbbrevBefore(text, idx) ==
  LET before == Substring(text, Max(0, idx - 10), idx)
  IN  ToLowerCase(Substring(before, WordRunStart(before, Len(before)), Len(before)))

\* a boundary that starts at the first character of its trimmed text
BoundaryFromFirstChar(text, a, b, t) ==
  [start |-> LeadingSpaces(text, a), end |-> b, text |-> t,
   isComplete |-> isCompleteSentence(t), isFragment |-> isFragment(t)]
Boundary(text, a, b, t) ==
  [start |-> a, end |-> b, text |-> t, isComplete |-> isCompleteSentence(t), isFragment |-> isFragment(t)]

\* the exec loop over /([.!?]+)(\s+|$)/g from index from, then the remaining-text step
RECURSIVE SplitLoop(_, _, _, _)
SplitLoop(text, from, lastEnd, acc) ==
  LET pos == NextIn(text, from, TermSet) IN
  IF pos >= Len(text)
  THEN LET remainingText == Trim(SubstringFrom(text, lastEnd))
       IN  IF lastEnd < Len(text) /\ Len(remainingText) > 0
           THEN Append(acc, Boundary(text, lastEnd, Len(text), remainingText))
           ELSE acc
  ELSE LET endPos == RunEnd(text, pos, TermSet)
           next == RunEnd(text, endPos, SpaceSet)
           possibleAbbrev == AbbrevBefore(text, pos)
           sentenceText == Trim(Substring(text, lastEnd, endPos))
       IN  IF endPos < Len(text) /\ ~IsSpace(CharAt(text, endPos))
           THEN SplitLoop(text, endPos, lastEnd, acc)
           ELSE IF possibleAbbrev \in COMMON_ABBREVIATIONS \/ Len(possibleAbbrev) = 1
           THEN SplitLoop(text, next, lastEnd, acc)
           ELSE IF Len(sentenceText) > 0
           THEN SplitLoop(text, next, endPos, Append(acc, Boundary(text, lastEnd, endPos, sentenceText)))
           ELSE SplitLoop(text, next, lastEnd, acc)

splitIntoSentences(text) == SplitLoop(text, 0, 0, << >>)

\* the first sentence with start <= offset <= end, as an index into sentences (0 if none)
OwningSentence(sentences, offset) ==
  LET hits == { i \in 1..Len(sentences) : offset >= sentences[i].start /\ offset <= sentences[i].end }
  IN  IF hits = {} THEN 0 ELSE CHOOSE i \in hits : \A j \in hits : i <= j

\* relativePos <= max(1, len * 0.1) and relativePos >= len * 0.9, in tenths
PositionIn(sentence, offset) ==
  LET relativePos == offset - sentence.start
      sentenceLength == sentence.end - sentence.start
  IN  IF 10 * relativePos <= Max(10, sentenceLength) THEN "start"
      ELSE IF 10 * relativePos >= 9 * sentenceLength THEN "end"
      ELSE "middle"

getSentencePosition(text, offset) ==
  With(splitIntoSentences(text), LAMBDA sentences :
    With(OwningSentence(sentences, offset), LAMBDA i :
      IF i = 0 THEN "standalone" ELSE PositionIn(sentences[i], offset)))

\* the loop that finds the word containing offset, assuming one separator character per gap
RECURSIVE FindWordIndex(_, _, _, _)
FindWordIndex(words, i, currentPos, offset) ==
  IF i > Len(words) THEN 0
  ELSE LET wordEnd == currentPos + Len(words[i])
       IN  IF offset >= currentPos /\ offset <= wordEnd THEN i
           ELSE FindWordIndex(words, i + 1, wordEnd + 1, offset)

extractWordsAroundPosition(text, offset, wordCount) ==
  LET words == SplitWS(text)
      wordIndex == FindWordIndex(words, 1, 0, offset)
  IN  IF wordIndex = 0 THEN [before |-> << >>, after |-> << >>]
      ELSE [before |-> SubSeq(words, Max(1, wordIndex - wordCount), wordIndex - 1),
            after |-> SubSeq(words, wordIndex + 1, Min(Len(words), wordIndex + wordCount))]

\* end of a match of /\n\s*\n/ starting at i: just after the last newline of the whitespace run
LastNewlineEnd(text, i) ==
  LET e == RunEnd(text, i + 1, SpaceSet)
      nl == { k \in (i + 1)..(e - 1) : CharAt(text, k) = "\n" }
  IN  IF nl = {} THEN -1 ELSE (CHOOSE k \in nl : \A m \in nl : m <= k) + 1

RECURSIVE ParagraphBreaks(_, _, _)
ParagraphBreaks(text, from, acc) ==
  LET pos == NextIn(text, from, {"\n"}) IN
  IF pos >= Len(text) THEN Append(acc, Len(text))
  ELSE IF LastNewlineEnd(text, pos) # -1
       THEN ParagraphBreaks(text, LastNewlineEnd(text, pos), Append(acc, LastNewlineEnd(text, pos)))
       ELSE ParagraphBreaks(text, pos + 1, acc)

findParagraphBoundaries(text, offset) ==
  LET breaks == ParagraphBreaks(text, 0, << 0 >>)
      hits == { i \in 1..(Len(breaks) - 1) : offset >= breaks[i] /\ offset < breaks[i + 1] }
  IN  IF hits = {} THEN [start |-> 0, end |-> Len(text)]
      ELSE LET i == CHOOSE h \in hits : \A j \in hits : h <= j
           IN  [start |-> breaks[i], end |-> breaks[i + 1]]

buildContextMetadata(text, offset, length) ==
  With(splitIntoSentences(text), LAMBDA sentences :
    With(OwningSentence(sentences, offset), LAMBDA i :
      With(findParagraphBoundaries(text, offset), LAMBDA paragraph :
        With(extractWordsAroundPosition(text, offset, 3), LAMBDA surroundingWords :
          [sentencePosition |-> getSentencePosition(text, offset),
           sentenceBoundary |-> IF i # 0 THEN sentences[i]
                                ELSE [start |-> 0, end |-> Len(text), text |-> text,
                                      isComplete |-> FALSE, isFragment |-> TRUE],
           paragraphStart |-> paragraph.start,
           paragraphEnd |-> paragraph.end,
           wordsBefore |-> surroundingWords.before,
           wordsAfter |-> surroundingWords.after]))))


(***************************************************************************)
(* Regular expressions of the rule tables.  A pattern is a sequence of     *)
(* elements: B (\b), WS (\s+), W (\w+), ANY (.), Lit(alternatives),        *)
(* Opt(c) (c?), Ahead(alternatives) ((?=a|b)), and the two tails that need *)
(* backtracking, LastS and Words(n).  Every rule but one carries the i     *)
(* flag and that one has no letters, so matching runs on the lower-cased   *)
(* text; offsets are unchanged by lower-casing.                            *)
(***************************************************************************)
B == [k |-> "b"]
WS == [k |-> "ws"]
W == [k |-> "w"]
ANY == [k |-> "any"]
Lit(alts) == [k |-> "lit", alts |-> alts]
Opt(c) == [k |-> "opt", alts |-> << c >>]
Ahead(alts) == [k |-> "ahead", alts |-> alts]
\* [a-zA-Z]{3,}: a run of at least three letters
Letters3 == [k |-> "az3"]
\* (\w+ed|alt|...): a word ending in "ed", or one of the alternatives
WordEdOr(alts) == [k |-> "wed", alts |-> alts]
\* (\w+\s+)*\w*s\b: greedy, so the last word ending in s of the run of blank-separated words
LastS == [k |-> "lasts"]
\* \w+(?:\s+\w+){n-1,}: a run of at least n blank-separated words
Words(n) == [k |-> "words", n |-> n]

\* \b w1 \s+ w2 ... \s+ wn \b, each wi a sequence of alternatives
RECURSIVE PhraseTail(_)
PhraseTail(slots) ==
  IF Len(slots) = 0 THEN << B >> ELSE << WS, Lit(slots[1]) >> \o PhraseTail(Tail(slots))
Phrase(slots) == << B, Lit(slots[1]) >> \o PhraseTail(Tail(slots))
\* \b w1 \s+ ... wn \s+ (?=alts)
PhraseAhead(slots, alts) ==
  SubSeq(Phrase(slots), 1, 2 * Len(slots)) \o << WS, Ahead(alts) >>

\* ends of the blank-separated words starting at i: <<end of word 1, end of word 2, ...>>
RECURSIVE WordEnds(_, _)
WordEnds(ls, i) ==
  LET e == RunEnd(ls, i, WordSet)
      n == RunEnd(ls, e, SpaceSet)
  IN  IF e = i THEN << >>
      ELSE IF n = e THEN << e >>
      ELSE << e >> \o WordEnds(ls, n)

\* end of the match of elements k.. of pat at index i of the lower-cased text ls, -1 if none
RECURSIVE MatchFrom(_, _, _, _)
MatchFrom(ls, i, pat, k) ==
  IF k > Len(pat) THEN i
  ELSE LET el == pat[k]
           Rest(j) == MatchFrom(ls, j, pat, k + 1)
           \* the first alternative, in order, after which the rest matches
           FirstOf(ok) == IF ok = {} THEN -1 ELSE Rest(i + Len(el.alts[MinOf(ok)]))
           Alternatives ==
             FirstOf({ a \in 1..Len(el.alts) :
                         Substring(ls, i, i + Len(el.alts[a])) = el.alts[a] /\ Rest(i + Len(el.alts[a])) # -1 })
           Run(e, least) == IF e - i >= least /\ Rest(e) # -1 THEN Rest(e) ELSE -1
           EdWord(e) ==
             IF e - i >= 3 /\ Substring(ls, e - 2, e) = "ed" /\ Rest(e) # -1 THEN Rest(e) ELSE Alternatives
           LastOf(ends, ok) == IF ok = {} THEN -1 ELSE Rest(ends[MaxOf(ok)])
           LastSOf(ends) ==
             LastOf(ends, { j \in 1..Len(ends) : CharAt(ls, ends[j] - 1) = "s" /\ Rest(ends[j]) # -1 })
           WordsOf(ends) == IF Len(ends) >= el.n THEN Rest(ends[Len(ends)]) ELSE -1
       IN  CASE el.k = "b" -> IF IsBoundary(ls, i) THEN Rest(i) ELSE -1
             [] el.k = "ws" -> IF IsSpace(CharAt(ls, i)) THEN Rest(RunEnd(ls, i, SpaceSet)) ELSE -1
             [] el.k = "w" -> IF IsWordChar(CharAt(ls, i)) THEN Rest(RunEnd(ls, i, WordSet)) ELSE -1
             [] el.k = "az3" -> Run(RunEnd(ls, i, LowerSet), 3)
             [] el.k = "any" -> IF i < Len(ls) /\ CharAt(ls, i) # "\n" THEN Rest(i + 1) ELSE -1
             [] el.k = "lit" -> Alternatives
             [] el.k = "opt" ->
                  IF Substring(ls, i, i + 1) = el.alts[1] /\ Rest(i + 1) # -1 THEN Rest(i + 1) ELSE Rest(i)
             [] el.k = "ahead" ->
                  IF \E a \in 1..Len(el.alts) : Substring(ls, i, i + Len(el.alts[a])) = el.alts[a]
                  THEN Rest(i) ELSE -1
             [] el.k = "wed" -> EdWord(RunEnd(ls, i, WordSet))
             [] el.k = "lasts" -> LastSOf(WordEnds(ls, i))
             [] el.k = "words" -> WordsOf(WordEnds(ls, i))

\* the matches of a global pattern in text, in order, as [index, end] (exec loop / matchAll)
RECURSIVE MatchesFrom(_, _, _)
MatchesFrom(ls, from, pat) ==
  \* ends[i]: the end of the match at index i, -1 if the pattern does not match there
  LET Matches(ends) ==
        LET starts == { i \in DOMAIN ends : ends[i] # -1 }
        IN  IF starts = {} THEN << >>
            ELSE << [index |-> MinOf(starts), end |-> ends[MinOf(starts)]] >>
                   \o MatchesFrom(ls, ends[MinOf(starts)], pat)
  IN  Matches([ i \in from..(Len(ls) - 1) |-> MatchFrom(ls, i, pat, 1) ])
FindAll(text, pat) == MatchesFrom(ToLowerCase(text), 0, pat)

\* String.prototype.replace with a global pattern and a literal replacement
RECURSIVE ReplaceMatches(_, _, _, _)
ReplaceMatches(text, from, ms, repl) ==
  IF Len(ms) = 0 THEN SubstringFrom(text, from)
  ELSE Substring(text, from, ms[1].index) \o repl \o ReplaceMatches(text, ms[1].end, Tail(ms), repl)
ReplaceAll(text, pat, repl) == ReplaceMatches(text, 0, FindAll(text, pat), repl)
\* String.prototype.replace with a non-global pattern: the first match only
ReplaceFirst(text, pat, repl) == ReplaceMatches(text, 0, SubSeq(FindAll(text, pat), 1, 1), repl)

\* String.prototype.split(/[.!?]+/)
RECURSIVE SplitTermFrom(_, _)
SplitTermFrom(s, start) ==
  LET i == NextIn(s, start, TermSet)
  IN  IF i >= Len(s) THEN << Substring(s, start, Len(s)) >>
      ELSE << Substring(s, start, i) >> \o SplitTermFrom(s, RunEnd(s, i, TermSet))
SplitTerminal(s) == SplitTermFrom(s, 0)


(***************************************************************************)
(* The rule tables.  A rule keeps its id, type, confidence (in hundredths),*)
(* pattern and replacement; message, shortMessage, category and examples   *)
(* are constant per rule and take no part in matching or filtering.        *)
(***************************************************************************)
\* 1.0 on the confidence scale: hundredths * 10^5 (quality) * tenths (risk) * tenths (validity)
ONE == 1000000000
\* a rule's prior confidence, given in hundredths, on the confidence scale
Prior(hundredths) == hundredths * (ONE \div 100)
Const(s) == [fn |-> FALSE, value |-> s]
Fn == [fn |-> TRUE, value |-> ""]
PastParticiples == << "given", "taken", "made", "done", "seen", "heard", "found", "told", "asked", "shown" >>

\* the grammar rules, in file order
grammarRules == <<
  [id |-> "there-is-plural", type |-> "grammar", confidence |-> 90,
   pattern |-> <<B, Lit(<<"there", "here">>), WS, Lit(<<"is">>), WS, LastS, B>>,
   replacement |-> Fn],
  [id |-> "collective-noun-singular", type |-> "grammar", confidence |-> 80,
   pattern |-> Phrase(<<<<"team", "group", "family", "company", "staff", "crew", "band", "committee">>, <<"are">>>>),
   replacement |-> Fn],
  [id |-> "each-singular", type |-> "grammar", confidence |-> 95,
   pattern |-> <<B, Lit(<<"each">>), WS, Lit(<<"of">>), WS, W, WS, Lit(<<"are">>), B>>,
   replacement |-> Fn],
  [id |-> "me-and-subject", type |-> "grammar", confidence |-> 90,
   pattern |-> <<B, Lit(<<"me">>), WS, Lit(<<"and">>), WS, W, WS, Lit(<<"went", "did", "are", "were", "will", "have", "had">>)>>,
   replacement |-> Fn],
  [id |-> "between-you-and-i", type |-> "grammar", confidence |-> 95,
   pattern |-> Phrase(<<<<"between">>, <<"you">>, <<"and">>, <<"i">>>>),
   replacement |-> Const("between you and me")],
  [id |-> "its-contraction", type |-> "grammar", confidence |-> 85,
   pattern |-> PhraseAhead(<<<<"its">>>>, <<"going", "coming", "being", "doing", "really", "very", "quite", "always", "never">>),
   replacement |-> Const("it's")],
  [id |-> "its-possessive", type |-> "grammar", confidence |-> 85,
   pattern |-> PhraseAhead(<<<<"it's">>>>, <<"own", "color", "size", "shape", "weight", "length", "width", "height", "name", "purpose">>),
   replacement |-> Const("its")],
  [id |-> "your-contraction", type |-> "grammar", confidence |-> 90,
   pattern |-> PhraseAhead(<<<<"your">>>>, <<"going", "coming", "being", "doing", "really", "very", "quite", "always", "never", "not", "welcome">>),
   replacement |-> Const("you're")],
  [id |-> "youre-possessive", type |-> "grammar", confidence |-> 90,
   pattern |-> PhraseAhead(<<<<"you're">>>>, <<"house", "car", "book", "phone", "computer", "family", "friend", "job", "work", "idea">>),
   replacement |-> Const("your")],
  [id |-> "then-comparison", type |-> "grammar", confidence |-> 95,
   pattern |-> PhraseAhead(<<<<"then">>>>, <<"better", "worse", "more", "less", "bigger", "smaller", "faster", "slower", "higher", "lower">>),
   replacement |-> Const("than")],
  [id |-> "an-consonant", type |-> "grammar", confidence |-> 90,
   pattern |-> PhraseAhead(<<<<"an">>>>, <<"university", "user", "unique", "uniform", "union", "unit", "usual", "utility">>),
   replacement |-> Const("a")],
  [id |-> "a-vowel-sound", type |-> "grammar", confidence |-> 95,
   pattern |-> PhraseAhead(<<<<"a">>>>, <<"hour", "honor", "honest", "heir", "herb">>),
   replacement |-> Const("an")],
  [id |-> "could-of", type |-> "grammar", confidence |-> 95,
   pattern |-> Phrase(<<<<"could", "would", "should", "might", "must">>, <<"of">>>>),
   replacement |-> Fn],
  [id |-> "i-seen", type |-> "grammar", confidence |-> 90,
   pattern |-> Phrase(<<<<"i">>, <<"seen">>>>),
   replacement |-> Const("I saw")],
  [id |-> "different-than", type |-> "grammar", confidence |-> 80,
   pattern |-> Phrase(<<<<"different">>, <<"than">>>>),
   replacement |-> Const("different from")],
  [id |-> "try-and", type |-> "grammar", confidence |-> 85,
   pattern |-> Phrase(<<<<"try">>, <<"and">>>>),
   replacement |-> Const("try to")],
  [id |-> "dont-have-no", type |-> "grammar", confidence |-> 95,
   pattern |-> Phrase(<<<<"don't">>, <<"have">>, <<"no">>>>),
   replacement |-> Const("don't have any")],
  [id |-> "cant-hardly", type |-> "grammar", confidence |-> 95,
   pattern |-> Phrase(<<<<"can't">>, <<"hardly">>>>),
   replacement |-> Const("can hardly")],
  [id |-> "comma-splice", type |-> "grammar", confidence |-> 70,
   pattern |-> <<B, W, Lit(<<",">>), WS, Lit(<<"i">>), WS, Lit(<<"went", "did", "am", "was", "will", "have", "had">>)>>,
   replacement |-> Fn]
>>

\* the style rules, in file order
styleRules == <<
  [id |-> "passive-voice-was", type |-> "style", confidence |-> 70,
   pattern |-> <<B, Lit(<<"was", "were">>), WS, WordEdOr(PastParticiples), B>>,
   replacement |-> Fn],
  [id |-> "passive-voice-being", type |-> "style", confidence |-> 80,
   pattern |-> <<B, Lit(<<"is", "are", "am", "was", "were">>), WS, Lit(<<"being">>), WS, WordEdOr(PastParticiples), B>>,
   replacement |-> Fn],
  [id |-> "advance-planning", type |-> "style", confidence |-> 90,
   pattern |-> Phrase(<<<<"advance">>, <<"planning">>>>),
   replacement |-> Const("planning")],
  [id |-> "brief-summary", type |-> "style", confidence |-> 90,
   pattern |-> Phrase(<<<<"brief">>, <<"summary">>>>),
   replacement |-> Const("summary")],
  [id |-> "close-proximity", type |-> "style", confidence |-> 90,
   pattern |-> Phrase(<<<<"close">>, <<"proximity">>>>),
   replacement |-> Const("proximity")],
  [id |-> "end-result", type |-> "style", confidence |-> 90,
   pattern |-> Phrase(<<<<"end">>, <<"result">>>>),
   replacement |-> Const("result")],
  [id |-> "final-outcome", type |-> "style", confidence |-> 90,
   pattern |-> Phrase(<<<<"final">>, <<"outcome">>>>),
   replacement |-> Const("outcome")],
  [id |-> "at-this-point-in-time", type |-> "style", confidence |-> 90,
   pattern |-> Phrase(<<<<"at">>, <<"this">>, <<"point">>, <<"in">>, <<"time">>>>),
   replacement |-> Const("now")],
  [id |-> "due-to-the-fact-that", type |-> "style", confidence |-> 95,
   pattern |-> Phrase(<<<<"due">>, <<"to">>, <<"the">>, <<"fact">>, <<"that">>>>),
   replacement |-> Const("because")],
  [id |-> "in-order-to", type |-> "style", confidence |-> 80,
   pattern |-> Phrase(<<<<"in">>, <<"order">>, <<"to">>>>),
   replacement |-> Const("to")],
  [id |-> "for-the-purpose-of", type |-> "style", confidence |-> 90,
   pattern |-> Phrase(<<<<"for">>, <<"the">>, <<"purpose">>, <<"of">>>>),
   replacement |-> Const("to")],
  [id |-> "in-the-event-that", type |-> "style", confidence |-> 95,
   pattern |-> Phrase(<<<<"in">>, <<"the">>, <<"event">>, <<"that">>>>),
   replacement |-> Const("if")],
  [id |-> "with-regard-to", type |-> "style", confidence |-> 90,
   pattern |-> Phrase(<<<<"with">>, <<"regard">>, <<"to">>>>),
   replacement |-> Const("about")],
  [id |-> "very-unique", type |-> "style", confidence |-> 95,
   pattern |-> Phrase(<<<<"very">>, <<"unique">>>>),
   replacement |-> Const("unique")],
  [id |-> "quite-perfect", type |-> "style", confidence |-> 90,
   pattern |-> Phrase(<<<<"quite", "very", "rather">>, <<"perfect">>>>),
   replacement |-> Const("perfect")],
  [id |-> "absolutely-essential", type |-> "style", confidence |-> 90,
   pattern |-> Phrase(<<<<"absolutely">>, <<"essential">>>>),
   replacement |-> Const("essential")],
  [id |-> "basically", type |-> "style", confidence |-> 80,
   pattern |-> <<B, Lit(<<"basically">>), Opt(","), WS>>,
   replacement |-> Const("")],
  [id |-> "literally-figurative", type |-> "style", confidence |-> 85,
   pattern |-> PhraseAhead(<<<<"literally">>>>, <<"amazing", "incredible", "dying", "exploded", "flew", "melted">>),
   replacement |-> Const("")],
  [id |-> "think-outside-box", type |-> "style", confidence |-> 80,
   pattern |-> Phrase(<<<<"think">>, <<"outside">>, <<"the">>, <<"box">>>>),
   replacement |-> Const("think creatively")],
  [id |-> "low-hanging-fruit", type |-> "style", confidence |-> 80,
   pattern |-> <<B, Lit(<<"low">>), ANY, Lit(<<"hanging">>), WS, Lit(<<"fruit">>), B>>,
   replacement |-> Const("easy opportunities")],
  [id |-> "paradigm-shift", type |-> "style", confidence |-> 70,
   pattern |-> Phrase(<<<<"paradigm">>, <<"shift">>>>),
   replacement |-> Const("fundamental change")],
  [id |-> "make-decision", type |-> "style", confidence |-> 80,
   pattern |-> Phrase(<<<<"make">>, <<"a">>, <<"decision">>>>),
   replacement |-> Const("decide")],
  [id |-> "give-consideration", type |-> "style", confidence |-> 90,
   pattern |-> Phrase(<<<<"give">>, <<"consideration">>, <<"to">>>>),
   replacement |-> Const("consider")],
  [id |-> "conduct-analysis", type |-> "style", confidence |-> 90,
   pattern |-> Phrase(<<<<"conduct">>, <<"an", "a">>, <<"analysis">>>>),
   replacement |-> Const("analyze")],
  [id |-> "there-are-many", type |-> "style", confidence |-> 70,
   pattern |-> Phrase(<<<<"there">>, <<"are">>, <<"many">>>>),
   replacement |-> Const("Many")],
  [id |-> "it-is-important", type |-> "style", confidence |-> 80,
   pattern |-> Phrase(<<<<"it">>, <<"is">>, <<"important">>, <<"to">>, <<"note">>, <<"that">>>>),
   replacement |-> Const("")],
  [id |-> "stuff-things", type |-> "style", confidence |-> 80,
   pattern |-> PhraseAhead(<<<<"stuff", "things">>>>, <<"that", "which", "like", "such">>),
   replacement |-> Const("[be more specific]")],
  [id |-> "a-lot-of", type |-> "style", confidence |-> 70,
   pattern |-> Phrase(<<<<"a">>, <<"lot">>, <<"of">>>>),
   replacement |-> Const("many")],
  [id |-> "very-long-sentence", type |-> "style", confidence |-> 60,
   pattern |-> <<B, Words(41), Lit(<<".">>)>>,
   replacement |-> Fn],
  [id |-> "very-adverb", type |-> "style", confidence |-> 70,
   pattern |-> Phrase(<<<<"very">>, <<"quickly", "slowly", "carefully", "easily", "clearly", "obviously", "definitely", "certainly", "probably", "possibly">>>>),
   replacement |-> Fn]
>>

\* the spelling rules, in file order
spellingRules == <<
  [id |-> "recieve", type |-> "spelling", confidence |-> 95,
   pattern |-> Phrase(<<<<"recieve">>>>),
   replacement |-> Const("receive")],
  [id |-> "seperate", type |-> "spelling", confidence |-> 95,
   pattern |-> Phrase(<<<<"seperate">>>>),
   replacement |-> Const("separate")],
  [id |-> "definately", type |-> "spelling", confidence |-> 95,
   pattern |-> Phrase(<<<<"definately">>>>),
   replacement |-> Const("definitely")],
  [id |-> "beleive", type |-> "spelling", confidence |-> 95,
   pattern |-> Phrase(<<<<"beleive">>>>),
   replacement |-> Const("believe")],
  [id |-> "acheive", type |-> "spelling", confidence |-> 95,
   pattern |-> Phrase(<<<<"acheive">>>>),
   replacement |-> Const("achieve")],
  [id |-> "releive", type |-> "spelling", confidence |-> 95,
   pattern |-> Phrase(<<<<"releive">>>>),
   replacement |-> Const("relieve")],
  [id |-> "wierd", type |-> "spelling", confidence |-> 95,
   pattern |-> Phrase(<<<<"wierd">>>>),
   replacement |-> Const("weird")],
  [id |-> "accomodate", type |-> "spelling", confidence |-> 95,
   pattern |-> Phrase(<<<<"accomodate">>>>),
   replacement |-> Const("accommodate")],
  [id |-> "occured", type |-> "spelling", confidence |-> 95,
   pattern |-> Phrase(<<<<"occured">>>>),
   replacement |-> Const("occurred")],
  [id |-> "begining", type |-> "spelling", confidence |-> 95,
   pattern |-> Phrase(<<<<"begining">>>>),
   replacement |-> Const("beginning")],
  [id |-> "comming", type |-> "spelling", confidence |-> 95,
   pattern |-> Phrase(<<<<"comming">>>>),
   replacement |-> Const("coming")],
  [id |-> "runing", type |-> "spelling", confidence |-> 95,
   pattern |-> Phrase(<<<<"runing">>>>),
   replacement |-> Const("running")],
  [id |-> "goverment", type |-> "spelling", confidence |-> 95,
   pattern |-> Phrase(<<<<"goverment">>>>),
   replacement |-> Const("government")],
  [id |-> "enviroment", type |-> "spelling", confidence |-> 95,
   pattern |-> Phrase(<<<<"enviroment">>>>),
   replacement |-> Const("environment")],
  [id |-> "parlament", type |-> "spelling", confidence |-> 95,
   pattern |-> Phrase(<<<<"parlament">>>>),
   replacement |-> Const("parliament")],
  [id |-> "calender", type |-> "spelling", confidence |-> 95,
   pattern |-> Phrase(<<<<"calender">>>>),
   replacement |-> Const("calendar")],
  [id |-> "cemetary", type |-> "spelling", confidence |-> 95,
   pattern |-> Phrase(<<<<"cemetary">>>>),
   replacement |-> Const("cemetery")],
  [id |-> "independant", type |-> "spelling", confidence |-> 95,
   pattern |-> Phrase(<<<<"independant">>>>),
   replacement |-> Const("independent")],
  [id |-> "maintainance", type |-> "spelling", confidence |-> 95,
   pattern |-> Phrase(<<<<"maintainance">>>>),
   replacement |-> Const("maintenance")],
  [id |-> "alot", type |-> "spelling", confidence |-> 95,
   pattern |-> Phrase(<<<<"alot">>>>),
   replacement |-> Const("a lot")],
  [id |-> "allright", type |-> "spelling", confidence |-> 90,
   pattern |-> Phrase(<<<<"allright">>>>),
   replacement |-> Const("all right")],
  [id |-> "noone", type |-> "spelling", confidence |-> 95,
   pattern |-> Phrase(<<<<"noone">>>>),
   replacement |-> Const("no one")],
  [id |-> "arguement", type |-> "spelling", confidence |-> 95,
   pattern |-> Phrase(<<<<"arguement">>>>),
   replacement |-> Const("argument")],
  [id |-> "judgement", type |-> "spelling", confidence |-> 80,
   pattern |-> Phrase(<<<<"judgement">>>>),
   replacement |-> Const("judgment")],
  [id |-> "acknowledgement", type |-> "spelling", confidence |-> 80,
   pattern |-> Phrase(<<<<"acknowledgement">>>>),
   replacement |-> Const("acknowledgment")],
  [id |-> "loose-lose", type |-> "spelling", confidence |-> 90,
   pattern |-> PhraseAhead(<<<<"loose">>>>, <<"weight", "money", "time", "interest", "hope", "control">>),
   replacement |-> Const("lose")],
  [id |-> "affect-effect", type |-> "spelling", confidence |-> 80,
   pattern |-> PhraseAhead(<<<<"affect">>>>, <<"is", "was", "will", "has", "had", "on">>),
   replacement |-> Const("effect")],
  [id |-> "accept-except", type |-> "spelling", confidence |-> 85,
   pattern |-> PhraseAhead(<<<<"accept">>>>, <<"for", "that", "when", "if">>),
   replacement |-> Const("except")],
  [id |-> "necesary", type |-> "spelling", confidence |-> 95,
   pattern |-> Phrase(<<<<"necesary">>>>),
   replacement |-> Const("necessary")],
  [id |-> "embarass", type |-> "spelling", confidence |-> 95,
   pattern |-> Phrase(<<<<"embarass", "embaras">>>>),
   replacement |-> Const("embarrass")],
  [id |-> "recomend", type |-> "spelling", confidence |-> 95,
   pattern |-> Phrase(<<<<"recomend">>>>),
   replacement |-> Const("recommend")],
  [id |-> "occassion", type |-> "spelling", confidence |-> 95,
   pattern |-> Phrase(<<<<"occassion">>>>),
   replacement |-> Const("occasion")],
  [id |-> "privilege", type |-> "spelling", confidence |-> 95,
   pattern |-> Phrase(<<<<"privilege">>>>),
   replacement |-> Const("privilege")],
  [id |-> "buisness", type |-> "spelling", confidence |-> 95,
   pattern |-> Phrase(<<<<"buisness">>>>),
   replacement |-> Const("business")],
  [id |-> "managment", type |-> "spelling", confidence |-> 95,
   pattern |-> Phrase(<<<<"managment">>>>),
   replacement |-> Const("management")],
  [id |-> "experiance", type |-> "spelling", confidence |-> 95,
   pattern |-> Phrase(<<<<"experiance">>>>),
   replacement |-> Const("experience")],
  [id |-> "responsable", type |-> "spelling", confidence |-> 95,
   pattern |-> Phrase(<<<<"responsable">>>>),
   replacement |-> Const("responsible")],
  [id |-> "recieve-data", type |-> "spelling", confidence |-> 95,
   pattern |-> PhraseAhead(<<<<"recieve">>>>, <<"data", "information", "message", "signal">>),
   replacement |-> Const("receive")],
  [id |-> "developement", type |-> "spelling", confidence |-> 95,
   pattern |-> Phrase(<<<<"developement">>>>),
   replacement |-> Const("development")]
>>

\* match.replace(/\b(there|here)\s+is\b/gi, "$1 are"): $1 is the first word as written
RECURSIVE ReplaceThereIs(_, _, _)
ReplaceThereIs(text, from, ms) ==
  IF Len(ms) = 0 THEN SubstringFrom(text, from)
  ELSE Substring(text, from, RunEnd(text, ms[1].index, WordSet)) \o " are"
         \o ReplaceThereIs(text, ms[1].end, Tail(ms))

\* the replacement functions of the rules, by rule id
replacementOf(rule, match) ==
  IF ~rule.replacement.fn THEN rule.replacement.value
  ELSE CASE rule.id = "there-is-plural" ->
              ReplaceThereIs(match, 0, FindAll(match, Phrase(<< <<"there", "here">>, <<"is">> >>)))
         [] rule.id \in {"collective-noun-singular", "each-singular"} ->
              ReplaceAll(match, << WS, Lit(<< "are" >>), B >>, " is")
         [] rule.id = "me-and-subject" ->
              ReplaceAll(match, << B, Lit(<< "me" >>), WS, Lit(<< "and" >>), WS >>, "I and ")
         [] rule.id = "could-of" -> ReplaceAll(match, << WS, Lit(<< "of" >>), B >>, " have")
         [] rule.id = "comma-splice" -> ReplaceFirst(match, << Lit(<< "," >>), WS >>, "; ")
         [] rule.id \in {"passive-voice-was", "passive-voice-being"} ->
              "[Consider rephrasing: " \o match \o "]"
         [] rule.id = "very-long-sentence" ->
              "[Consider breaking up: " \o Substring(match, 0, 50) \o "...]"
         [] rule.id = "very-adverb" ->
              \* /very\s+/ carries no i flag: the match is searched as written
              LET ms == MatchesFrom(match, 0, << Lit(<< "very" >>), WS >>)
              IN  IF Len(ms) = 0 THEN match ELSE ReplaceMatches(match, 0, << ms[1] >>, "")

(***************************************************************************)
(* GrammarError, reduced to the fields the engine computes from the match: *)
(* validationRisk is "none" for an error that carries no validation and    *)
(* suggestions is empty for an error built without that field.             *)
(***************************************************************************)
GrammarError(rule, text, m, replacement, confidence, risk) ==
  [type |-> rule.type, ruleId |-> rule.id, confidence |-> confidence,
   offset |-> m.index, length |-> m.end - m.index,
   text |-> Substring(text, m.index, m.end), replacement |-> replacement,
   suggestions |-> << >>, validationRisk |-> risk]

\* applyRule: one error per match of the (global) pattern
applyRule(text, rule) ==
  LET ms == FindAll(text, rule.pattern)
  IN  [ j \in 1..Len(ms) |->
          GrammarError(rule, text, ms[j], replacementOf(rule, Substring(text, ms[j].index, ms[j].end)),
                       Prior(rule.confidence), "none") ]


(***************************************************************************)
(* The context-aware style rules and their replacement functions.  A       *)
(* replacement is [some, value]: some = FALSE is the null a rule returns   *)
(* when it declines to suggest anything.                                   *)
(***************************************************************************)
RECURSIVE Flatten(_)
Flatten(seqs) ==
  IF Len(seqs) = 0 THEN << >>
  ELSE IF Len(seqs) = 1 THEN seqs[1]
  ELSE Flatten(SubSeq(seqs, 1, Len(seqs) \div 2)) \o Flatten(SubSeq(seqs, Len(seqs) \div 2 + 1, Len(seqs)))

contextAwareStyleRules == <<
  [id |-> "there-are-many-contextual", type |-> "style", confidence |-> 70,
   pattern |-> Phrase(<< <<"there">>, <<"are">>, <<"many">> >>),
   riskLevel |-> "risky", requiresValidation |-> TRUE],
  [id |-> "a-lot-of-contextual", type |-> "style", confidence |-> 70,
   pattern |-> Phrase(<< <<"a">>, <<"lot">>, <<"of">> >>),
   riskLevel |-> "moderate", requiresValidation |-> TRUE],
  [id |-> "it-is-important-contextual", type |-> "style", confidence |-> 80,
   pattern |-> Phrase(<< <<"it">>, <<"is">>, <<"important">>, <<"to">>, <<"note">>, <<"that">> >>),
   riskLevel |-> "moderate", requiresValidation |-> TRUE],
  [id |-> "basically-contextual", type |-> "style", confidence |-> 80,
   pattern |-> << B, Lit(<<"basically">>), Opt(","), WS >>,
   riskLevel |-> "safe", requiresValidation |-> FALSE],
  [id |-> "very-adjective-contextual", type |-> "style", confidence |-> 70,
   pattern |-> Phrase(<< <<"very">>, <<"good", "bad", "big", "small", "important", "difficult", "easy", "interesting", "nice", "great">> >>),
   riskLevel |-> "safe", requiresValidation |-> FALSE],
  [id |-> "make-decision-contextual", type |-> "style", confidence |-> 80,
   pattern |-> Phrase(<< <<"make">>, <<"a">>, <<"decision">> >>),
   riskLevel |-> "safe", requiresValidation |-> FALSE],
  [id |-> "give-consideration-contextual", type |-> "style", confidence |-> 90,
   pattern |-> Phrase(<< <<"give">>, <<"consideration">>, <<"to">> >>),
   riskLevel |-> "safe", requiresValidation |-> FALSE],
  [id |-> "conduct-analysis-contextual", type |-> "style", confidence |-> 90,
   pattern |-> Phrase(<< <<"conduct">>, <<"an", "a">>, <<"analysis">> >>),
   riskLevel |-> "safe", requiresValidation |-> FALSE]
>>

clearlyCountablePlurals ==
  {"issues", "problems", "questions", "ideas", "options", "choices", "opportunities", "challenges",
   "benefits", "advantages", "features", "improvements", "changes", "mistakes", "errors", "bugs",
   "files", "documents", "reports", "emails", "messages", "notifications", "users", "customers",
   "clients", "people", "items", "things", "requests", "suggestions", "recommendations", "solutions"}
commonPluralizable ==
  {"issue", "problem", "question", "idea", "option", "choice", "opportunity", "challenge", "benefit",
   "advantage", "feature", "improvement", "change", "mistake", "error", "bug", "file", "document",
   "report", "email", "message", "notification", "user", "customer", "client", "person", "item",
   "thing", "request", "suggestion", "recommendation", "solution"}
strongerAdjectives ==
  [a \in {"good", "bad", "big", "small", "important", "difficult", "easy", "interesting", "nice", "great"} |->
     CASE a = "good" -> "excellent" [] a = "bad" -> "terrible" [] a = "big" -> "enormous"
       [] a = "small" -> "tiny" [] a = "important" -> "crucial" [] a = "difficult" -> "challenging"
       [] a = "easy" -> "simple" [] a = "interesting" -> "fascinating" [] a = "nice" -> "wonderful"
       [] a = "great" -> "outstanding"]

Null == [some |-> FALSE, value |-> ""]
Some(v) == [some |-> TRUE, value |-> v]

thereAreManyReplacement(match, fullText, matchStart, matchEnd) ==
  IF getSentencePosition(fullText, matchStart) # "start" THEN Null
  ELSE With(SplitTerminal(fullText), LAMBDA sentences :
         With({ i \in 1..Len(sentences) : Includes(ToLowerCase(sentences[i]), ToLowerCase(match)) },
              LAMBDA hits :
           IF hits = {} THEN Null
           ELSE IF isCompleteSentence(Trim(ReplaceAll(sentences[MinOf(hits)],
                     << Lit(<<"there">>), WS, Lit(<<"are">>), WS, Lit(<<"many">>) >>, "Many")))
           THEN Some("Many") ELSE Null))

aLotOfReplacement(match, fullText, matchStart, matchEnd) ==
  With(Trim(SubstringFrom(fullText, matchEnd)), LAMBDA afterMatch :
    With(ToLowerCase(SplitWS(afterMatch)[1]), LAMBDA nextWord :
      IF nextWord = "" THEN Null
      ELSE IF EndsWith(nextWord, "s") /\ nextWord \in clearlyCountablePlurals THEN Some("many")
      ELSE IF nextWord \in commonPluralizable THEN Some("many")
      ELSE Null))

itIsImportantReplacement(match, fullText, matchStart, matchEnd) ==
  With(Trim(SubstringFrom(fullText, matchEnd)), LAMBDA afterMatch :
    IF getSentencePosition(fullText, matchStart) = "start" /\ Len(afterMatch) > 10
    THEN Some(UpperChar(CharAt(afterMatch, 0)) \o SubstringFrom(afterMatch, 1))
    ELSE Null)

veryAdjectiveReplacement(match) ==
  With(ToLowerCase(ReplaceFirst(match, << Lit(<<"very">>), WS >>, "")), LAMBDA adjective :
    IF adjective \in DOMAIN strongerAdjectives THEN strongerAdjectives[adjective] ELSE adjective)

contextAwareReplacement(rule, match, fullText, matchStart, matchEnd) ==
  CASE rule.id = "there-are-many-contextual" -> thereAreManyReplacement(match, fullText, matchStart, matchEnd)
    [] rule.id = "a-lot-of-contextual" -> aLotOfReplacement(match, fullText, matchStart, matchEnd)
    [] rule.id = "it-is-important-contextual" -> itIsImportantReplacement(match, fullText, matchStart, matchEnd)
    [] rule.id = "basically-contextual" -> Some(IF Includes(match, ",") THEN ", " ELSE " ")
    [] rule.id = "very-adjective-contextual" -> Some(veryAdjectiveReplacement(match))
    [] rule.id = "make-decision-contextual" -> Some("decide")
    [] rule.id = "give-consideration-contextual" -> Some("consider")
    [] rule.id = "conduct-analysis-contextual" -> Some("analyze")

(***************************************************************************)
(* processWithContextAwareStyleRules, cut at its awaits.  ruleMatches      *)
(* lists, in loop order, the matches whose rule proposed a replacement:    *)
(* a match at index 0 is skipped by `if (!match.index) continue`.          *)
(***************************************************************************)
ruleMatchesOf(text, k) ==
  With(contextAwareStyleRules[k], LAMBDA rule :
    With(FindAll(text, rule.pattern), LAMBDA ms :
      With([ j \in 1..Len(ms) |->
               contextAwareReplacement(rule, Substring(text, ms[j].index, ms[j].end), text,
                                       ms[j].index, ms[j].end) ], LAMBDA sugg :
        With(SortedSeq({ j \in 1..Len(ms) : ms[j].index # 0 /\ sugg[j].some }), LAMBDA keep :
          [ n \in 1..Len(keep) |->
              [rule |-> k, match |-> Substring(text, ms[keep[n]].index, ms[keep[n]].end),
               start |-> ms[keep[n]].index, end |-> ms[keep[n]].end,
               suggestion |-> sugg[keep[n]].value] ]))))
ruleMatches(text) ==
  Flatten([ k \in 1..Len(contextAwareStyleRules) |-> ruleMatchesOf(text, k) ])


(***************************************************************************)
(* The texts submitted to checkText.  What the code computes from a text   *)
(* alone is tabulated once per text.                                       *)
(***************************************************************************)
\* the texts submitted to checkText
Texts ==
  << "We make a decision.",
     "We nBke a decision.",
     "I saw a lot of bugs today.",
     "I saw a lot of bugs todayy",
     "So it is important to note that it is important to note that we saw cats etc!",
     "So It is important to note that we saw cats etc! it is important to note that we saw cats etc!",
     "We could of recieve data, basically there are many." >>

Table(f) == f @@ << >>
RuleMatches == Table([ i \in DOMAIN Texts |-> ruleMatches(Texts[i]) ])

(***************************************************************************)
(* Sentence boundary cache and replacement validation (lib/grammar-context)*)
(***************************************************************************)
\* Map.prototype operations on a cache kept as a sequence of [key, value] in insertion order
CacheHas(cache, key) == \E i \in 1..Len(cache) : cache[i].key = key
CacheGet(cache, key) == cache[CHOOSE i \in 1..Len(cache) : cache[i].key = key].value
\* an eviction that drops the key inserted last
CacheDeleteLast(cache) == IF Len(cache) = 0 THEN cache ELSE SubSeq(cache, 1, Len(cache) - 1)
CacheDeleteFirst(cache) == IF Len(cache) = 0 THEN cache ELSE Tail(cache)
CacheDelete(cache, key) == SelectSeq(cache, LAMBDA e : e.key # key)
\* Map.prototype.set: an existing key keeps its position, a new key is appended
CacheSet(cache, key, value) ==
  IF CacheHas(cache, key)
  THEN [ i \in 1..Len(cache) |-> IF cache[i].key = key THEN [key |-> key, value |-> value] ELSE cache[i] ]
  ELSE Append(cache, [key |-> key, value |-> value])

commonVerbs ==
  {"is", "are", "was", "were", "am", "be", "been", "being", "have", "has", "had", "having",
   "do", "does", "did", "doing", "will", "would", "could", "should", "might", "may", "can",
   "go", "goes", "went", "going", "get", "gets", "got", "getting", "make", "makes", "made",
   "making", "take", "takes", "took", "taking", "come", "comes", "came", "coming", "see",
   "sees", "saw", "seeing", "know", "knows", "knew", "knowing", "think", "thinks", "thought",
   "thinking", "want", "wants", "wanted", "wanting", "need", "needs", "needed", "needing",
   "receive", "receives", "received", "receiving", "give", "gives", "gave", "giving", "find",
   "finds", "found", "finding", "feel", "feels", "felt", "feeling", "work", "works", "worked",
   "working", "use", "uses", "used", "using", "show", "shows", "showed", "showing", "tell",
   "tells", "told", "telling", "ask", "asks", "asked", "asking", "try", "tries", "tried",
   "trying", "help", "helps", "helped", "helping", "play", "plays", "played", "playing",
   "move", "moves", "moved", "moving", "live", "lives", "lived", "living", "believe",
   "believes", "believed", "believing", "hold", "holds", "held", "holding", "bring", "brings",
   "brought", "bringing", "happen", "happens", "happened", "happening", "write", "writes",
   "wrote", "writing", "provide", "provides", "provided", "providing", "sit", "sits", "sat",
   "sitting", "stand", "stands", "stood", "standing", "lose", "loses", "lost", "losing", "pay",
   "pays", "paid", "paying", "meet", "meets", "met", "meeting", "include", "includes",
   "included", "including", "continue", "continues", "continued", "continuing", "set", "sets",
   "setting", "learn", "learns", "learned", "learning", "change", "changes", "changed",
   "changing", "lead", "leads", "led", "leading", "understand", "understands", "understood",
   "understanding", "watch", "watches", "watched", "watching", "follow", "follows", "followed",
   "following", "stop", "stops", "stopped", "stopping", "create", "creates", "created",
   "creating", "speak", "speaks", "spoke", "speaking", "read", "reads", "reading", "allow",
   "allows", "allowed", "allowing", "add", "adds", "added", "adding", "spend", "spends",
   "spent", "spending", "grow", "grows", "grew", "growing", "open", "opens", "opened",
   "opening", "walk", "walks", "walked", "walking", "win", "wins", "won", "winning", "offer",
   "offers", "offered", "offering", "remember", "remembers", "remembered", "remembering",
   "love", "loves", "loved", "loving", "consider", "considers", "considered", "considering",
   "appear", "appears", "appeared", "appearing", "buy", "buys", "bought", "buying", "wait",
   "waits", "waited", "waiting", "serve", "serves", "served", "serving", "die", "dies", "died",
   "dying", "send", "sends", "sent", "sending", "expect", "expects", "expected", "expecting",
   "build", "builds", "built", "building", "stay", "stays", "stayed", "staying", "fall",
   "falls", "fell", "falling", "cut", "cuts", "cutting", "reach", "reaches", "reached",
   "reaching", "kill", "kills", "killed", "killing", "remain", "remains", "remained",
   "remaining"}

\* /^[A-Z][a-z]+$/.test(w)
IsCapitalizedWord(w) ==
  /\ Len(w) >= 2
  /\ CharAt(w, 0) \in UpperSet
  /\ \A i \in 1..(Len(w) - 1) : CharAt(w, i) \in LowerSet

hasBasicSubject(words) ==
  LET pronouns == {"i", "you", "he", "she", "it", "we", "they", "this", "that", "these", "those"}
      articles == {"the", "a", "an"}
      possessives == {"my", "your", "his", "her", "its", "our", "their"}
  IN  \E i \in 1..Min(3, Len(words)) :
        \/ words[i] \in pronouns
        \/ (words[i] \in articles /\ i < Len(words))
        \/ (words[i] \in possessives /\ i < Len(words))
        \/ (IsCapitalizedWord(words[i]) /\ (i > 1 \/ Len(words) > 1))

hasBasicVerb(words) ==
  \E i \in 1..Len(words) :
    \/ words[i] \in commonVerbs
    \/ (EndsWith(words[i], "ed") /\ Len(words[i]) > 3)
    \/ (EndsWith(words[i], "ing") /\ Len(words[i]) > 4)
    \/ (EndsWith(words[i], "s") /\ Len(words[i]) > 2 /\ ~EndsWith(words[i], "ss"))

\* the issue list is kept as the set of issue kinds; isComplete as the source computes it
validateSentenceCompleteness(text) ==
  With(Trim(text), LAMBDA trimmed :
    IF trimmed = ""
    THEN [isComplete |-> FALSE, hasSubject |-> FALSE, hasVerb |-> FALSE, issues |-> {"Empty text"}]
    ELSE With(SplitWS(ToLowerCase(trimmed)), LAMBDA words :
      With(hasBasicSubject(words), LAMBDA hasSubject :
        With(hasBasicVerb(words), LAMBDA hasVerb :
          With((IF ~EndsWithTerminal(trimmed) THEN {"Missing sentence punctuation"} ELSE {})
               \cup (IF ~hasSubject THEN {"No clear subject found"} ELSE {})
               \cup (IF ~hasVerb THEN {"No clear verb found"} ELSE {}), LAMBDA issues :
            [isComplete |-> (issues = {} \/ (hasSubject /\ hasVerb /\ EndsWithTerminal(trimmed))),
             hasSubject |-> hasSubject, hasVerb |-> hasVerb, issues |-> issues])))))

ApplyReplacement(text, offset, length, replacement) ==
  Substring(text, 0, offset) \o replacement \o SubstringFrom(text, offset + length)

\* the SuggestionContext validateSuggestion builds for a context-aware rule match
SuggestionContextOf(text, matchStart, matchEnd, replacement, rule) ==
  [originalText |-> text, offset |-> matchStart, length |-> matchEnd - matchStart,
   replacement |-> replacement, ruleId |-> rule.id, ruleType |-> "style",
   originalConfidence |-> rule.confidence]

\* the contexts validateSuggestion is called with for the submitted texts
ValidatedContexts ==
  UNION { { SuggestionContextOf(Texts[i], m.start, m.end, m.suggestion, contextAwareStyleRules[m.rule]) :
              m \in { x \in SeqToSet(RuleMatches[i]) : contextAwareStyleRules[x.rule].requiresValidation } } :
          i \in DOMAIN Texts }
\* splitIntoSentences of the submitted texts and of their edits, tabulated
Sentences ==
  With(ValidatedContexts, LAMBDA contexts :
    Table([ t \in { c.originalText : c \in contexts }
                  \cup { ApplyReplacement(c.originalText, c.offset, c.length, c.replacement) : c \in contexts }
            |-> splitIntoSentences(t) ]))

SentenceCacheLimit == 100

SentenceCacheKey(text) ==
  ToString(Len(text)) \o "_" \o Substring(text, 0, 50) \o "_" \o SubstringFrom(text, Len(text) - 50)

\* returns the boundaries and the sentence boundary cache after the call
getCachedSentenceBoundaries(cache, text) ==
  With(SentenceCacheKey(text), LAMBDA textHash :
    IF CacheHas(cache, textHash)
    THEN [boundaries |-> CacheGet(cache, textHash), cache |-> cache]
    ELSE With(With(Sentences, LAMBDA table :
                IF text \in DOMAIN table THEN table[text] ELSE splitIntoSentences(text)), LAMBDA boundaries :
           [boundaries |-> boundaries,
            cache |-> CacheSet(IF Len(cache) > SentenceCacheLimit THEN CacheDeleteFirst(cache) ELSE cache,
                               textHash, boundaries)]))

analyzeMultiSentenceContext(cache, text, startOffset, endOffset) ==
  With(getCachedSentenceBoundaries(cache, text), LAMBDA got :
    [sentences |-> SelectSeq(got.boundaries, LAMBDA b : ~(b.end < startOffset \/ b.start > endOffset)),
     cache |-> got.cache])

\* validateReplacement after its two analyzeMultiSentenceContext calls: isValid and the issue
\* kinds, from the sentences found around the original and around the replacement
validateReplacement(originalText, offset, length, replacement, sentences, newSentences) ==
  With(SplitWS(ToLowerCase(replacement)), LAMBDA replacementWords :
    With(ToLowerCase(Substring(originalText, Max(0, offset - 20), offset)), LAMBDA contextBefore :
      With(ToLowerCase(Substring(originalText, offset + length,
                                 Min(Len(originalText), offset + length + 20))), LAMBDA contextAfter :
        With((IF Len(sentences) # Len(newSentences)
              THEN {"Replacement changes sentence structure"} ELSE {})
             \cup (IF \E i \in 1..Len(newSentences) :
                        ~validateSentenceCompleteness(newSentences[i].text).isComplete
                   THEN {"Incomplete sentence"} ELSE {})
             \cup (IF EndsWith(contextBefore, ". ") /\ replacementWords[1] = ToLowerCase(replacementWords[1])
                   THEN {"Replacement should be capitalized after period"} ELSE {})
             \cup (IF StartsWith(contextAfter, " ") /\ EndsWith(replacementWords[Len(replacementWords)], ".")
                   THEN {"Replacement ends with period but continues in sentence"} ELSE {}), LAMBDA issues :
          [isValid |-> issues = {}, issues |-> issues]))))

(***************************************************************************)
(* Suggestion validator (lib/grammar-validation)                           *)
(***************************************************************************)

ValidationCacheLimit == 200

\* context quality on a scale where 1.0 = 100000: five factors in tenths, then the clamp to [0.1, 1.0]
assessContextQuality(metadata, originalText, offset, length) ==
  LET f1 == IF metadata.sentenceBoundary.isFragment THEN 6 ELSE 10
      f2 == IF ~metadata.sentenceBoundary.isComplete THEN 7 ELSE 10
      f3 == IF offset < 10 \/ offset + length > Len(originalText) - 10 THEN 8 ELSE 10
      f4 == IF Len(metadata.wordsBefore) < 2 \/ Len(metadata.wordsAfter) < 2 THEN 7 ELSE 10
      f5 == IF metadata.sentencePosition \in {"start", "middle"} THEN 11 ELSE 10
  IN  Max(10000, Min(100000, f1 * f2 * f3 * f4 * f5))

assessSuggestionRisk(context, metadata, replacementValidation) ==
  IF ~replacementValidation.isValid THEN "risky"
  ELSE IF metadata.sentenceBoundary.isFragment /\ context.ruleType = "style" THEN "risky"
  ELSE IF context.replacement = "" /\ metadata.sentencePosition = "start" THEN "risky"
  ELSE IF metadata.sentencePosition = "start" /\ context.ruleType = "style" THEN "moderate"
  ELSE IF context.originalConfidence < 70 THEN "moderate"
  ELSE "safe"

\* the adjustment with the lower clamp at 0.6 instead of 0.1
adjustConfidenceClampedAtSixTenths(originalConfidence, contextQuality, risk, replacementValidation) ==
  LET riskFactor == CASE risk = "risky" -> 3 [] risk = "moderate" -> 7 [] risk = "safe" -> 11
      validFactor == IF ~replacementValidation.isValid THEN 2 ELSE 10
      adjustedConfidence == originalConfidence * contextQuality * riskFactor * validFactor
  IN  Max(Prior(60), Min(ONE, adjustedConfidence))
\* originalConfidence in hundredths, contextQuality with 1.0 = 100000; the result has 1.0 = ONE
adjustConfidenceBasedOnContext(originalConfidence, contextQuality, risk, replacementValidation) ==
  LET riskFactor == CASE risk = "risky" -> 3 [] risk = "moderate" -> 7 [] risk = "safe" -> 11
      validFactor == IF ~replacementValidation.isValid THEN 2 ELSE 10
      adjustedConfidence == originalConfidence * contextQuality * riskFactor * validFactor
  IN  Max(ONE \div 10, Min(ONE, adjustedConfidence))

\* performValidation after the sentence lookups of validateReplacement
ValidationResult(context, sentences, newSentences) ==
  With(validateReplacement(context.originalText, context.offset, context.length, context.replacement,
                           sentences, newSentences), LAMBDA replacementValidation :
    With(buildContextMetadata(context.originalText, context.offset, context.length), LAMBDA contextMetadata :
      With(assessContextQuality(contextMetadata, context.originalText, context.offset, context.length),
           LAMBDA contextQuality :
        With(assessSuggestionRisk(context, contextMetadata, replacementValidation), LAMBDA risk :
          [isValid |-> replacementValidation.isValid /\ risk # "risky",
           risk |-> risk,
           confidence |->
             adjustConfidenceBasedOnContext(context.originalConfidence, contextQuality, risk,
                                            replacementValidation),
           issues |->
             replacementValidation.issues
             \cup (IF contextQuality < 50000 THEN {"Low context quality - suggestion may be unreliable"} ELSE {})
             \cup (IF contextMetadata.sentencePosition = "start" /\ CharAt(context.replacement, 0) \notin UpperSet
                   THEN {"Replacement should be capitalized at sentence start"} ELSE {}),
           suggestions |->
             (IF risk = "risky" THEN {"Consider manual review of this suggestion"} ELSE {})
             \cup (IF ~replacementValidation.isValid THEN {"Suggestion may break sentence structure"} ELSE {}),
           contextQuality |-> contextQuality]))))

\* the sentences validateReplacement finds around the original and around the replacement, and
\* the sentence boundary cache after its two lookups
SentencesAround(sbCache, context) ==
  With(analyzeMultiSentenceContext(sbCache, context.originalText, context.offset,
                                   context.offset + context.length), LAMBDA found :
    With(analyzeMultiSentenceContext(found.cache,
           ApplyReplacement(context.originalText, context.offset, context.length, context.replacement),
           context.offset, context.offset + Len(context.replacement)), LAMBDA newFound :
      [sentences |-> found.sentences, newSentences |-> newFound.sentences, sbCache |-> newFound.cache]))

\* ValidationResult of the submitted texts' contexts on freshly split sentences, tabulated
Validations ==
  Table([ c \in ValidatedContexts |->
          With(SentencesAround(<< >>, c), LAMBDA around :
            [sentences |-> around.sentences, newSentences |-> around.newSentences,
             result |-> ValidationResult(c, around.sentences, around.newSentences)]) ])

\* returns the ValidationResult and the sentence boundary cache after the call; the result is
\* read from the table when the lookups found the sentences the table was computed from
performValidation(sbCache, context) ==
  With(SentencesAround(sbCache, context), LAMBDA around :
    With(Validations, LAMBDA table :
      [result |-> IF /\ context \in DOMAIN table
                     /\ table[context].sentences = around.sentences
                     /\ table[context].newSentences = around.newSentences
                  THEN table[context].result
                  ELSE ValidationResult(context, around.sentences, around.newSentences),
       sbCache |-> around.sbCache]))

\* the validation cache key
generateCacheKey(context) ==
  context.ruleId \o "_" \o ToString(context.offset) \o "_" \o ToString(context.length) \o "_"
    \o context.replacement \o "_" \o ToString(Len(context.originalText))

\* returns the result and both caches after the call
validateSuggestionInContextWith(vCache, sbCache, context, computed) ==
  With(generateCacheKey(context), LAMBDA cacheKey :
    IF CacheHas(vCache, cacheKey)
    THEN [result |-> CacheGet(vCache, cacheKey), vCache |-> vCache, sbCache |-> sbCache]
    ELSE [result |-> computed.result,
          vCache |-> CacheSet(IF Len(vCache) > ValidationCacheLimit THEN CacheDeleteFirst(vCache) ELSE vCache,
                              cacheKey, computed.result),
          sbCache |-> computed.sbCache])
validateSuggestionInContext(vCache, sbCache, context) ==
  validateSuggestionInContextWith(vCache, sbCache, context, performValidation(sbCache, context))

\* SuggestionValidation: the risk in upper case, confidence, reasons, isValid
ToSuggestionValidation(result) ==
  [risk |-> CASE result.risk = "risky" -> "RISKY" [] result.risk = "moderate" -> "MODERATE"
              [] result.risk = "safe" -> "SAFE",
   confidence |-> result.confidence, reasons |-> result.issues, isValid |-> result.isValid]


\* a gate that lets every validated suggestion through
failedValidationNever(validation) == FALSE
\* the gate after validateSuggestion: a failed validation is skipped
failedValidation(validation) == validation.risk = "RISKY" /\ validation.confidence < Prior(60)

\* the entry pushed for a match; validation is [some |-> FALSE] for a rule that needs none
StyleSuggestion(m, validation) ==
  [rule |-> m.rule, match |-> m.match, start |-> m.start, end |-> m.end,
   suggestion |-> m.suggestion, validation |-> validation]
NoValidation == [some |-> FALSE, risk |-> "none", confidence |-> 0]
WithValidation(v) == [some |-> TRUE, risk |-> v.risk, confidence |-> v.confidence]

\* convertToGrammarSuggestions, one entry
convertToGrammarSuggestion(s) ==
  LET rule == contextAwareStyleRules[s.rule]
  IN  [type |-> rule.type, ruleId |-> rule.id,
       confidence |-> IF s.validation.some THEN s.validation.confidence ELSE Prior(rule.confidence),
       start |-> s.start, end |-> s.end, text |-> s.match, replacement |-> s.suggestion,
       validated |-> s.validation.some, validationRisk |-> s.validation.risk]
convertToGrammarSuggestions(suggestions) ==
  [ j \in 1..Len(suggestions) |-> convertToGrammarSuggestion(suggestions[j]) ]

\* filterGrammarSuggestionsByValidation: the predicate of its filter
keptByValidationFilter(suggestion) ==
  /\ ~(suggestion.confidence # 0 /\ suggestion.confidence < Prior(30))
  /\ ~(suggestion.validationRisk = "RISKY" /\ suggestion.confidence < Prior(70))
filterGrammarSuggestionsByValidation(suggestions) ==
  LET keep == SortedSeq({ j \in 1..Len(suggestions) : keptByValidationFilter(suggestions[j]) })
  IN  [ n \in 1..Len(keep) |-> suggestions[keep[n]] ]

\* the whole of processWithContextAwareStyleRules run without interruption from given caches
RECURSIVE processFrom(_, _, _, _, _, _)
processFrom(text, ms, j, acc, vCache, sbCache) ==
  IF j > Len(ms) THEN [suggestions |-> acc, vCache |-> vCache, sbCache |-> sbCache]
  ELSE With(contextAwareStyleRules[ms[j].rule], LAMBDA rule :
         IF ~rule.requiresValidation
         THEN processFrom(text, ms, j + 1, Append(acc, StyleSuggestion(ms[j], NoValidation)), vCache, sbCache)
         ELSE With(validateSuggestionInContext(vCache, sbCache,
                     SuggestionContextOf(text, ms[j].start, ms[j].end, ms[j].suggestion, rule)), LAMBDA r :
                With(ToSuggestionValidation(r.result), LAMBDA validation :
                  processFrom(text, ms, j + 1,
                              IF failedValidation(validation) THEN acc
                              ELSE Append(acc, StyleSuggestion(ms[j], WithValidation(validation))),
                              r.vCache, r.sbCache))))
\* what the enhanced style processor returns for text in a fresh process
freshStyleSuggestions(text) ==
  filterGrammarSuggestionsByValidation(
    convertToGrammarSuggestions(processFrom(text, ruleMatches(text), 1, << >>, << >>, << >>).suggestions))


(***************************************************************************)
(* EnhancedStyleProcessor: the key of its result cache.  The hash is kept  *)
(* as two 16-bit halves so that 31 * hash + char wraps at 32 bits.         *)
(***************************************************************************)
HashStep(h, c) ==
  IF c = "" THEN h
  ELSE LET lo == 31 * h.lo + CharCode(c)
       IN  [hi |-> (31 * h.hi + lo \div 65536) % 65536, lo |-> lo % 65536]
\* the loop over the characters, four per step; the running hash is computed at each step
RECURSIVE HashFrom(_, _, _)
HashFrom(text, i, h) ==
  IF i >= Len(text) \/ h.lo < 0 THEN h
  ELSE HashFrom(text, i + 4,
         HashStep(HashStep(HashStep(HashStep(h, CharAt(text, i)), CharAt(text, i + 1)),
                           CharAt(text, i + 2)), CharAt(text, i + 3)))
\* the hash as the signed 32-bit integer the key prints
HashOf(text) ==
  LET h == HashFrom(text, 0, [hi |-> 0, lo |-> 0])
  IN  (IF h.hi >= 32768 THEN h.hi - 65536 ELSE h.hi) * 65536 + h.lo
generateStyleCacheKey(text) == "style_" \o ToString(HashOf(text)) \o "_" \o ToString(Len(text))

(***************************************************************************)
(* DictionaryService.  The word list file is outside the repository: the   *)
(* model loads WordList when the file is present and nothing when it is    *)
(* missing.                                                                *)
(***************************************************************************)
WordList ==
  << "make", "decision", "saw", "lot", "bugs", "today", "toady", "important", "note", "that", "than",
     "cats", "etc", "could", "cold", "went", "basically", "there", "three", "are", "many", "data",
     "date", "receive", "and", "feedback", "get", "now", "stuff" >>
\* load: the words of the file, or none when the file does not exist
LoadedWords(present) == IF present THEN WordList ELSE << >>

isValid(words, word) == ToLowerCase(word) \in SeqToSet(words)

\* one row of the Levenshtein table from the row above it
RECURSIVE LevRow(_, _, _, _, _)
LevRow(prev, ai, b, j, acc) ==
  IF j > Len(b) THEN acc
  ELSE LET cost == IF ai = SubSeq(b, j, j) THEN 0 ELSE 1
           v == Min(Min(prev[j + 1] + 1, acc[j] + 1), prev[j] + cost)
       IN  LevRow(prev, ai, b, j + 1, Append(acc, v))
\* the rows of the table in turn: each row has Len(b) + 1 entries
RECURSIVE LevRows(_, _, _, _)
LevRows(a, b, i, prev) ==
  IF i <= Len(a) /\ Len(prev) = Len(b) + 1
  THEN LevRows(a, b, i + 1, LevRow(prev, SubSeq(a, i, i), b, 1, << i >>))
  ELSE prev[Len(b) + 1]
levenshtein(a, b) == LevRows(a, b, 1, [ j \in 1..(Len(b) + 1) |-> j - 1 ])

Abs(n) == IF n < 0 THEN -n ELSE n
\* a.localeCompare(b) < 0 for words of lower-case letters
RECURSIVE StrLess(_, _)
StrLess(a, b) ==
  IF Len(b) = 0 THEN FALSE
  ELSE IF Len(a) = 0 THEN TRUE
  ELSE IF SubSeq(a, 1, 1) = SubSeq(b, 1, 1) THEN StrLess(SubSeq(a, 2, Len(a)), SubSeq(b, 2, Len(b)))
  ELSE CharCode(SubSeq(a, 1, 1)) < CharCode(SubSeq(b, 1, 1))

\* consider(list): the candidates of list within the length heuristic at distance 1 or 2 are
\* pushed in list order
consider(word, list, results) ==
  With(SelectSeq(list, LAMBDA cand :
         /\ Abs(Len(cand) - Len(word)) <= 2
         /\ levenshtein(word, cand) \in {1, 2}), LAMBDA found :
    results \o [ n \in 1..Len(found) |-> [w |-> found[n], d |-> levenshtein(word, found[n])] ])
\* the broadened search over the whole set: the words not yet in results, within length
\* difference 1 and at distance 1 or 2, are pushed in set order until there are 2 * limit results
broaden(word, list, results, limit) ==
  With(SelectSeq(list, LAMBDA cand :
         /\ ~\E r \in SeqToSet(results) : r.w = cand
         /\ Abs(Len(cand) - Len(word)) <= 1
         /\ levenshtein(word, cand) \in {1, 2}), LAMBDA found :
    results \o [ n \in 1..Min(Len(found), Max(0, limit * 2 - Len(results))) |->
                  [w |-> found[n], d |-> levenshtein(word, found[n])] ])
\* results sorted by distance, then alphabetically
SuggestionBefore(r, q) == IF r.d # q.d THEN r.d < q.d ELSE StrLess(r.w, q.w)
suggestions(words, input, limit) ==
  LET word == ToLowerCase(input)
      candidates == SelectSeq(words, LAMBDA cand : SubSeq(cand, 1, 1) = SubSeq(word, 1, 1))
      primary == consider(word, candidates, << >>)
      results == IF Len(primary) < limit THEN broaden(word, words, primary, limit) ELSE primary
      rank == [ i \in 1..Len(results) |->
                 Cardinality({ j \in 1..Len(results) :
                                 \/ SuggestionBefore(results[j], results[i])
                                 \/ (~SuggestionBefore(results[i], results[j]) /\ j < i) }) + 1 ]
      sorted == [ n \in 1..Len(results) |-> results[CHOOSE i \in 1..Len(results) : rank[i] = n].w ]
  IN  SubSeq(sorted, 1, Min(limit, Len(sorted)))

(***************************************************************************)
(* EnhancedSpellingChecker                                                 *)
(***************************************************************************)
applyRegexRules(text) == Flatten([ k \in 1..Len(spellingRules) |-> applyRule(text, spellingRules[k]) ])

DictionaryConfidence == 60
WordPattern == << B, Letters3, B >>
applyDictionary(words, text, existing) ==
  With(SelectSeq(FindAll(text, WordPattern), LAMBDA m :
         /\ ~\E e \in SeqToSet(existing) : m.index >= e.offset /\ m.index < e.offset + e.length
         /\ ~isValid(words, Substring(text, m.index, m.end))), LAMBDA flagged :
    [ n \in 1..Len(flagged) |->
        With(Substring(text, flagged[n].index, flagged[n].end), LAMBDA word :
          With(suggestions(words, word, 3), LAMBDA sugg :
            [type |-> "spelling", ruleId |-> "dictionary", confidence |-> Prior(DictionaryConfidence),
             offset |-> flagged[n].index, length |-> Len(word), text |-> word,
             replacement |-> IF Len(sugg) > 0 THEN sugg[1] ELSE word,
             suggestions |-> << >>, validationRisk |-> "none"])) ])
countWords(text) == Len(FindAll(text, WordPattern))
checkSpelling(words, text) ==
  With(applyRegexRules(text), LAMBDA ruleErrors :
    With(applyDictionary(words, text, ruleErrors), LAMBDA dictErrors :
      [errors |-> ruleErrors \o dictErrors,
       stats |-> [wordsChecked |-> countWords(text), ruleBasedErrors |-> Len(ruleErrors),
                  dictionaryErrors |-> Len(dictErrors)]]))


(***************************************************************************)
(* GrammarEngine                                                           *)
(***************************************************************************)
problematicRuleIds ==
  {"there-are-many", "a-lot-of", "it-is-important", "basically",
   "there-are-many-contextual", "a-lot-of-contextual", "it-is-important-contextual",
   "basically-contextual"}
shouldUseContextAwareRule(ruleId) == ruleId \in problematicRuleIds

\* the constructor with useEnhancedStyleRules = true: grammar rules, then the style rules not routed
filteredStyleRules ==
  SelectSeq(styleRules, LAMBDA rule : ~shouldUseContextAwareRule(rule.id))
allRules == grammarRules \o filteredStyleRules
problematicStyleRules ==
  SelectSeq(styleRules, LAMBDA rule : shouldUseContextAwareRule(rule.id))

\* the first loop of checkText
applyAllRules(text) == Flatten([ k \in 1..Len(allRules) |-> applyRule(text, allRules[k]) ])
\* the loop of the catch branch of checkText
applyProblematicRules(text) ==
  Flatten([ k \in 1..Len(problematicStyleRules) |-> applyRule(text, problematicStyleRules[k]) ])

\* a rule's replacement function is invoked once per match: throwing aborts applyRule at the first match
replacementInvoked(text, ruleId) ==
  \E k \in 1..Len(allRules) :
    allRules[k].id = ruleId /\ allRules[k].replacement.fn /\ Len(FindAll(text, allRules[k].pattern)) > 0

\* an enhanced style suggestion as a GrammarError
toGrammarError(suggestion) ==
  [type |-> suggestion.type, ruleId |-> suggestion.ruleId, confidence |-> suggestion.confidence,
   offset |-> suggestion.start, length |-> suggestion.end - suggestion.start,
   text |-> suggestion.text, replacement |-> suggestion.replacement,
   suggestions |-> << suggestion.replacement >>, validationRisk |-> suggestion.validationRisk]

\* an overlap test that sees only errors starting at the same offset
doErrorsOverlapSameOffset(error1, error2) == error1.offset = error2.offset
doErrorsOverlap(error1, error2) ==
  LET end1 == error1.offset + error1.length
      end2 == error2.offset + error2.length
  IN  ~(end1 <= error2.offset \/ end2 <= error1.offset)

RECURSIVE removeOverlappingFrom(_, _, _)
removeOverlappingFrom(errors, j, filtered) ==
  IF j > Len(errors) THEN filtered
  ELSE LET error == errors[j]
           hits == { i \in 1..Len(filtered) : doErrorsOverlap(error, filtered[i]) }
           overlappingIndex == MinOf(hits)
       IN  IF hits = {} THEN removeOverlappingFrom(errors, j + 1, Append(filtered, error))
           ELSE IF error.confidence > filtered[overlappingIndex].confidence
           THEN removeOverlappingFrom(errors, j + 1, [filtered EXCEPT ![overlappingIndex] = error])
           ELSE removeOverlappingFrom(errors, j + 1, filtered)
removeOverlappingErrors(errors) == removeOverlappingFrom(errors, 1, << >>)

\* the errors left in the order they were collected
keepCollectedOrder(errors) == errors
\* errors.sort((a, b) => a.offset - b.offset): stable
sortByOffset(errors) ==
  LET rank == [ i \in 1..Len(errors) |->
                 Cardinality({ j \in 1..Len(errors) :
                                 \/ errors[j].offset < errors[i].offset
                                 \/ (errors[j].offset = errors[i].offset /\ j < i) }) + 1 ]
  IN  [ n \in 1..Len(errors) |-> errors[CHOOSE i \in 1..Len(errors) : rank[i] = n] ]

CountType(errors, type) == Cardinality({ i \in 1..Len(errors) : errors[i].type = type })

\* checkText from the point where the enhanced style processor has answered: ruleErrors
\* is the outcome of the first loop, fallbackErrors what the catch branch would collect,
\* style is [threw, suggestions] and threw selects the catch branch.
finishCheckText(ruleErrors, fallbackErrors, spellingResult, style) ==
  LET styleErrors == IF style.threw THEN fallbackErrors
                     ELSE [ j \in 1..Len(style.suggestions) |-> toGrammarError(style.suggestions[j]) ]
      collected == ruleErrors \o styleErrors \o spellingResult.errors
      filteredErrors == removeOverlappingErrors(sortByOffset(collected))
  IN  [collected |-> collected,
       errors |-> filteredErrors,
       stats |-> [totalChecks |-> Len(allRules) + 1,
                  grammarErrors |-> CountType(filteredErrors, "grammar"),
                  spellingErrors |-> CountType(filteredErrors, "spelling"),
                  styleErrors |-> CountType(filteredErrors, "style"),
                  enhancedSpelling |-> spellingResult.stats]]

\* checkText(text) run alone in a fresh process
freshCheckText(words, text) ==
  finishCheckText(applyAllRules(text), applyProblematicRules(text), checkSpelling(words, text),
                  [threw |-> FALSE, suggestions |-> freshStyleSuggestions(text)])

\* checkGrammar of the route: the replacements delivered for an error are its suggestions
\* when it has any, else its replacement when that is not empty
replacements(error) ==
  IF Len(error.suggestions) > 0 THEN error.suggestions
  ELSE IF error.replacement # "" THEN << error.replacement >> ELSE << >>
\* result.errors.map(...): GrammarError[] to GrammarSuggestion[]
toGrammarSuggestions(errors) ==
  [ n \in 1..Len(errors) |->
      [type |-> errors[n].type, ruleId |-> errors[n].ruleId, offset |-> errors[n].offset,
       length |-> errors[n].length, replacements |-> replacements(errors[n]),
       confidence |-> errors[n].confidence] ]
checkGrammar(words, text) == toGrammarSuggestions(freshCheckText(words, text).errors)


(***************************************************************************)
(* The server process: one GrammarEngine, the enhanced style processor     *)
(* with its result cache and expiry timers, the validation cache, the      *)
(* sentence boundary cache and the dictionary, shared by checkText calls   *)
(* that interleave at their awaits.                                        *)
(***************************************************************************)
\* at most MaxCalls calls are made, at most MaxPending of them are in flight together
MaxCalls == 3
MaxPending == 2
\* the rules whose replacement function is taken to throw in a faulted call
ThrowingRuleIds == {"could-of"}

\* what checkText computes from the text alone, tabulated once per text
StyleCacheKey == Table([ i \in DOMAIN Texts |-> generateStyleCacheKey(Texts[i]) ])
RuleErrors == Table([ i \in DOMAIN Texts |-> applyAllRules(Texts[i]) ])
FallbackErrors == Table([ i \in DOMAIN Texts |-> applyProblematicRules(Texts[i]) ])
SpellingResult ==
  Table([ p \in BOOLEAN |-> Table([ i \in DOMAIN Texts |-> checkSpelling(LoadedWords(p), Texts[i]) ]) ])
FreshErrors ==
  Table([ p \in BOOLEAN |-> Table([ i \in DOMAIN Texts |-> freshCheckText(LoadedWords(p), Texts[i]).errors ]) ])

VARIABLES
  styleCache,             \* EnhancedStyleProcessor.cache: [key, value] in insertion order
  timers,                 \* keys of the pending setTimeout deletions, in the order they were set
  validationCache,        \* validationCache of grammar-validation
  sentenceBoundaryCache,  \* sentenceBoundaryCache of grammar-context
  wordListPresent,        \* whether words_alpha.txt existed when the dictionary loaded
  calls,                  \* the checkText calls made so far, in the order they began
  lastValidation,         \* the latest validateSuggestionInContext call: what it returned, and
                          \* what performValidation computes for the same context
  probe,                  \* the latest direct call of a library function and what it returned
  redis,                  \* the Redis store of the grammar-check route: cache key to cached list
  lastResponse,           \* the latest request of the grammar-check route and its response
  editor,                 \* the editor panel: its text, what it displays and what it submitted
  debounces,              \* the pending calls of debouncedCheckGrammar and debouncedAnalyzeTone
  requests                \* the fetches the editor panel issued, in the order they were issued
endpointVars == << redis, lastResponse >>
editorVars == << editor, debounces, requests >>
vars == << styleCache, timers, validationCache, sentenceBoundaryCache, wordListPresent, calls,
           lastValidation, probe, endpointVars, editorVars >>

NoProbe == [op |-> "none"]
NoResponse == [status |-> 0]
NoTimer == [pending |-> FALSE]
NoText == [some |-> FALSE]
NoFix == [call |-> 0, ruleId |-> "", offset |-> 0]
NoResult == [collected |-> << >>, errors |-> << >>]

Init ==
  /\ styleCache = << >>
  /\ timers = << >>
  /\ validationCache = << >>
  /\ sentenceBoundaryCache = << >>
  /\ wordListPresent \in BOOLEAN
  /\ calls = << >>
  /\ lastValidation = [some |-> FALSE]
  /\ probe = NoProbe
  /\ redis = [ k \in {} |-> << >> ]
  /\ lastResponse = NoResponse
  /\ editor = [created |-> FALSE, text |-> "", applied |-> 0, edits |-> 0, shown |-> NoText,
               submitted |-> NoText, tone |-> NoText]
  /\ debounces = [grammar |-> NoTimer, tone |-> NoTimer, staleFired |-> FALSE, cancelledEarlier |-> FALSE]
  /\ requests = << >>

\* processWithContextAwareStyleRules from match j up to its next await (validateSuggestion
\* has run and its answer is pending) or to its return
RECURSIVE runToAwait(_, _, _, _, _)
runToAwait(i, j, acc, vCache, sbCache) ==
  With(RuleMatches[i], LAMBDA ms :
    IF j > Len(ms)
    THEN [pc |-> "processed", next |-> j, suggestions |-> acc, pending |-> NoValidation,
          vCache |-> vCache, sbCache |-> sbCache, validated |-> [some |-> FALSE]]
    ELSE With(contextAwareStyleRules[ms[j].rule], LAMBDA rule :
      IF ~rule.requiresValidation
      THEN runToAwait(i, j + 1, Append(acc, StyleSuggestion(ms[j], NoValidation)), vCache, sbCache)
      ELSE With(SuggestionContextOf(Texts[i], ms[j].start, ms[j].end, ms[j].suggestion, rule), LAMBDA context :
        With(performValidation(sbCache, context), LAMBDA computed :
          With(validateSuggestionInContextWith(vCache, sbCache, context, computed), LAMBDA r :
            [pc |-> "validating", next |-> j, suggestions |-> acc,
             pending |-> WithValidation(ToSuggestionValidation(r.result)),
             vCache |-> r.vCache, sbCache |-> r.sbCache,
             validated |-> [some |-> TRUE, returned |-> r.result, uncached |-> computed.result]])))))

InFlight == { c \in 1..Len(calls) : calls[c].pc \in {"validating", "processed"} }

\* the result checkText returns once the style processor has answered with suggestions
Returned(i, answer) ==
  finishCheckText(RuleErrors[i], FallbackErrors[i], SpellingResult[wordListPresent][i],
                  [threw |-> FALSE, suggestions |-> answer])

\* checkText(Texts[i]) up to its first await.  fault is "none", a rule of the first loop
\* whose replacement function throws, or "style" for an exception inside the context-aware
\* processing; fixOf names the suggestion whose replacement produced this text, if any.
Begin(i, fault, fixOf) ==
  /\ Len(calls) < MaxCalls
  /\ Cardinality(InFlight) < MaxPending
  /\ \E key \in { StyleCacheKey[i] },
        call \in { [text |-> i, fault |-> fault, fixOf |-> fixOf, pc |-> "returned", next |-> 1,
                    suggestions |-> << >>, pending |-> NoValidation, skipped |-> 0,
                    style |-> << >>, result |-> NoResult] } :
       IF fault \in ThrowingRuleIds
       THEN \* applyRule throws out of the first loop: checkText rejects
            /\ replacementInvoked(Texts[i], fault)
            /\ calls' = Append(calls, [call EXCEPT !.pc = "rejected"])
            /\ UNCHANGED << styleCache, timers, validationCache, sentenceBoundaryCache, lastValidation >>
       ELSE IF CacheHas(styleCache, key) \/ fault = "style"
       THEN \* `if (cached) return cached`; otherwise the catch of processStyleSuggestions
            \* answers [] and caches nothing
            /\ CacheHas(styleCache, key) => fault = "none"
            /\ \E answer \in { IF CacheHas(styleCache, key) THEN CacheGet(styleCache, key) ELSE << >> } :
                 calls' = Append(calls, [call EXCEPT !.style = answer, !.result = Returned(i, answer)])
            /\ UNCHANGED << styleCache, timers, validationCache, sentenceBoundaryCache, lastValidation >>
       ELSE \E run \in { runToAwait(i, 1, << >>, validationCache, sentenceBoundaryCache) } :
            /\ calls' = Append(calls, [call EXCEPT !.pc = run.pc, !.next = run.next,
                                                   !.suggestions = run.suggestions,
                                                   !.pending = run.pending])
            /\ validationCache' = run.vCache
            /\ sentenceBoundaryCache' = run.sbCache
            /\ lastValidation' = IF run.validated.some THEN run.validated ELSE lastValidation
            /\ UNCHANGED << styleCache, timers >>
  /\ UNCHANGED << wordListPresent, probe, endpointVars, editorVars >>

BeginCall(i, fault) == Begin(i, fault, NoFix)

\* the replacement of suggestion k of a returned call is applied to its text and the edited
\* text is checked
RecheckAfterFix(c, k) ==
  LET e == calls[c].result.errors[k]
      edited == ApplyReplacement(Texts[calls[c].text], e.offset, e.length, e.replacement)
  IN  /\ calls[c].pc = "returned"
      /\ k \in 1..Len(calls[c].result.errors)
      /\ \E r \in 1..Len(contextAwareStyleRules) : contextAwareStyleRules[r].id = e.ruleId
      /\ \E i \in DOMAIN Texts :
           /\ Texts[i] = edited
           /\ Begin(i, "none", [call |-> c, ruleId |-> e.ruleId, offset |-> e.offset])

\* a call resumes after `await validateSuggestion(...)`: the gate, the push, and the loop on
\* to the next await
ResumeCall(c) ==
  /\ calls[c].pc = "validating"
  /\ \E call \in { calls[c] } :
     \E failed \in { failedValidation(call.pending) } :
     \E run \in { runToAwait(call.text, call.next + 1,
                             IF failed THEN call.suggestions
                             ELSE Append(call.suggestions,
                                         StyleSuggestion(RuleMatches[call.text][call.next], call.pending)),
                             validationCache, sentenceBoundaryCache) } :
       /\ calls' = [calls EXCEPT ![c] = [call EXCEPT !.pc = run.pc, !.next = run.next,
                                                     !.suggestions = run.suggestions,
                                                     !.pending = run.pending,
                                                     !.skipped = IF failed THEN @ + 1 ELSE @]]
       /\ validationCache' = run.vCache
       /\ sentenceBoundaryCache' = run.sbCache
       /\ lastValidation' = IF run.validated.some THEN run.validated ELSE lastValidation
  /\ UNCHANGED << styleCache, timers, wordListPresent, probe, endpointVars, editorVars >>

\* processWithContextAwareStyleRules has returned: convert, filter, cache with its expiry
\* timer, and the rest of checkText
FinishCall(c) ==
  /\ calls[c].pc = "processed"
  /\ \E call \in { calls[c] } :
     \E key \in { StyleCacheKey[call.text] } :
     \E filteredSuggestions \in
          { filterGrammarSuggestionsByValidation(convertToGrammarSuggestions(call.suggestions)) } :
       /\ styleCache' = CacheSet(styleCache, key, filteredSuggestions)
       /\ timers' = Append(timers, key)
       /\ calls' = [calls EXCEPT ![c] = [call EXCEPT !.pc = "returned", !.style = filteredSuggestions,
                                                     !.result = Returned(call.text, filteredSuggestions)]]
  /\ UNCHANGED << validationCache, sentenceBoundaryCache, wordListPresent, lastValidation, probe, endpointVars, editorVars >>

\* the oldest expiry timer fires: `this.cache.delete(cacheKey)`
TimerFire ==
  /\ Len(timers) > 0
  /\ styleCache' = CacheDelete(styleCache, Head(timers))
  /\ timers' = Tail(timers)
  /\ UNCHANGED << validationCache, sentenceBoundaryCache, wordListPresent, calls, lastValidation, probe, endpointVars, editorVars >>

\* EnhancedStyleProcessor.clearCache
ClearCache ==
  /\ styleCache' = << >>
  /\ UNCHANGED << timers, validationCache, sentenceBoundaryCache, wordListPresent, calls, lastValidation, probe, endpointVars, editorVars >>

clearValidationCache ==
  /\ validationCache' = << >>
  /\ UNCHANGED << styleCache, timers, sentenceBoundaryCache, wordListPresent, calls, lastValidation, probe, endpointVars, editorVars >>

Next ==
  \/ \E i \in DOMAIN Texts, fault \in {"none", "style"} \cup ThrowingRuleIds : BeginCall(i, fault)
  \/ \E c \in 1..Len(calls) : \E k \in 1..Len(calls[c].result.errors) : RecheckAfterFix(c, k)
  \/ \E c \in 1..Len(calls) : ResumeCall(c)
  \/ \E c \in 1..Len(calls) : FinishCall(c)
  \/ TimerFire
  \/ ClearCache
  \/ clearValidationCache

Spec == Init /\ [][Next]_vars

(***************************************************************************)
(* Tone analysis (the tone route): analyzeTone                             *)
(***************************************************************************)
\* the indicator table, in insertion order
toneIndicators == <<
  [tone |-> "positive",
   indicators |-> << "excellent", "amazing", "wonderful", "fantastic", "great", "good", "love", "like",
                     "happy", "excited", "thrilled", "delighted", "pleased", "satisfied", "awesome",
                     "brilliant", "outstanding", "superb", "magnificent", "marvelous", "terrific" >>],
  [tone |-> "negative",
   indicators |-> << "terrible", "awful", "horrible", "bad", "hate", "dislike", "sad", "angry",
                     "frustrated", "disappointed", "annoyed", "upset", "worried", "concerned", "dreadful",
                     "appalling", "disgusting", "revolting", "pathetic", "useless" >>],
  [tone |-> "formal",
   indicators |-> << "therefore", "furthermore", "consequently", "moreover", "nevertheless", "however",
                     "thus", "hence", "accordingly", "subsequently", "notwithstanding", "pursuant",
                     "aforementioned", "heretofore", "whereas", "whereby" >>],
  [tone |-> "informal",
   indicators |-> << "hey", "hi", "yeah", "yep", "nope", "gonna", "wanna", "gotta", "kinda", "sorta",
                     "dunno", "ain't", "y'all", "folks", "guys", "stuff", "things" >>],
  [tone |-> "confident",
   indicators |-> << "definitely", "certainly", "absolutely", "undoubtedly", "clearly", "obviously",
                     "surely", "indeed", "precisely", "exactly", "guaranteed", "assured", "confident" >>],
  [tone |-> "uncertain",
   indicators |-> << "maybe", "perhaps", "possibly", "might", "could", "probably", "seems", "appears",
                     "suggests", "indicates", "presumably", "allegedly", "supposedly" >>],
  [tone |-> "friendly",
   indicators |-> << "thanks", "thank you", "please", "welcome", "appreciate", "glad", "nice", "kind",
                     "helpful", "wonderful", "pleasure", "delighted", "honored" >>],
  [tone |-> "aggressive",
   indicators |-> << "must", "should", "need to", "have to", "required", "mandatory", "demand",
                     "insist", "force", "compel", "urgent", "critical", "essential" >>]
>>

\* text.match(new RegExp(`\\b${indicator}\\b`, "gi")): the number of matches
indicatorMatches(lower, indicator) ==
  Cardinality({ i \in 0..(Len(lower) - Len(indicator)) :
                  /\ Substring(lower, i, i + Len(indicator)) = indicator
                  /\ IsBoundary(lower, i)
                  /\ IsBoundary(lower, i + Len(indicator)) })
RECURSIVE SumSeq(_)
SumSeq(q) == IF Len(q) = 0 THEN 0 ELSE Head(q) + SumSeq(Tail(q))
\* the score of one category of the table
indicatorScore(lower, k) ==
  SumSeq([ n \in 1..Len(toneIndicators[k].indicators) |->
             indicatorMatches(lower, toneIndicators[k].indicators[n]) ])

\* the user-facing name of a category
toneMapping(tone) ==
  CASE tone = "positive" -> "positive" [] tone = "negative" -> "negative" [] tone = "formal" -> "formal"
    [] tone = "informal" -> "casual" [] tone = "confident" -> "confident"
    [] tone = "uncertain" -> "tentative" [] tone = "friendly" -> "friendly"
    [] tone = "aggressive" -> "assertive" [] tone = "excited" -> "enthusiastic"
    [] tone = "inquisitive" -> "curious" [] OTHER -> "neutral"

\* the score table after the adjustments for punctuation and sentence length, in insertion
\* order: excited and inquisitive are added only when their condition holds.  The average
\* sentence length is compared without dividing: total / n > 20 iff total > 20 * n.
toneScores(text) ==
  With(SelectSeq(SplitTerminal(text), LAMBDA s : Len(Trim(s)) > 0), LAMBDA sentences :
    With([exclamationCount |-> Cardinality({ n \in 1..Len(sentences) : Includes(sentences[n], "!") }),
          questionCount |-> Cardinality({ n \in 1..Len(sentences) : Includes(sentences[n], "?") }),
          total |-> SumSeq([ n \in 1..Len(sentences) |-> Len(SplitWS(Trim(sentences[n]))) ]),
          count |-> Len(sentences),
          lower |-> ToLowerCase(text)], LAMBDA a :
      With(IF a.count > 0 /\ a.total > 20 * a.count THEN "formal"
           ELSE IF a.count = 0 \/ a.total < 10 * a.count THEN "informal" ELSE "none", LAMBDA bonus :
        [ k \in 1..Len(toneIndicators) |->
            [tone |-> toneIndicators[k].tone,
             score |-> indicatorScore(a.lower, k) + (IF toneIndicators[k].tone = bonus THEN 2 ELSE 0)] ]
        \o (IF 10 * a.exclamationCount > 3 * a.count
            THEN << [tone |-> "excited", score |-> a.exclamationCount] >> ELSE << >>)
        \o (IF 10 * a.questionCount > 2 * a.count
            THEN << [tone |-> "inquisitive", score |-> a.questionCount] >> ELSE << >>))))

analyzeTone(text) ==
  With(toneScores(text), LAMBDA scores :
    With(MaxOf({ scores[k].score : k \in 1..Len(scores) }), LAMBDA maxScore :
      IF maxScore = 0 THEN "neutral"
      ELSE toneMapping(scores[MinOf({ k \in 1..Len(scores) : scores[k].score = maxScore })].tone)))

(***************************************************************************)
(* Direct calls of the library functions: one call at a time, on inputs    *)
(* drawn from bounded sets; probe records the call and what it returned.   *)
(***************************************************************************)
\* the letters substituted into dictionary words to make misspellings, and the largest limit
EditLetters == {"b", "r", "x"}
MaxLimit == 3
\* the words one substitution away from word d
Edits(d) ==
  { SubSeq(d, 1, i - 1) \o c \o SubSeq(d, i + 1, Len(d)) : i \in 1..Len(d), c \in EditLetters } \ {d}
ProbeWords == UNION { Edits(d) : d \in SeqToSet(WordList) }

\* the caller takes the result of the call
Reset ==
  /\ probe # NoProbe
  /\ probe' = NoProbe
  /\ UNCHANGED << styleCache, timers, validationCache, sentenceBoundaryCache, wordListPresent, calls,
                  lastValidation, endpointVars, editorVars >>

\* getDictionary().suggestions(w, k)
Suggest(w, k) ==
  /\ probe = NoProbe
  /\ probe' = [op |-> "suggestions", word |-> w, limit |-> k,
               result |-> suggestions(LoadedWords(wordListPresent), w, k)]
  /\ UNCHANGED << styleCache, timers, validationCache, sentenceBoundaryCache, wordListPresent, calls,
                  lastValidation, endpointVars, editorVars >>

\* the texts checked directly
ProbeTexts ==
  { "",
    "I get a lot of feedback now.",
    "I get a lot of bugs now.",
    "I get a lot of bugs.",
    "I get a lot of stuff now.",
    "make a decision now.",
    "We make a decision.",
    "So me and Bobb went.",
    "We saw thab." }

\* further texts whose tone is analysed
ToneTexts ==
  { "Thanks, this is great!",
    "Hey guys. Maybe we could go? Maybe not?",
    "Therefore we must insist that the aforementioned report, which was required by the committee and is essential, be completed and delivered to the board before the end of the week." }

\* what checkText, the enhanced style processor and checkGrammar of the route compute for
\* the texts checked directly, tabulated once per text
ProbeChecks ==
  Table([ p \in BOOLEAN |-> Table([ t \in ProbeTexts |->
          With(freshCheckText(LoadedWords(p), t), LAMBDA result :
            [collected |-> result.collected, errors |-> result.errors, stats |-> result.stats,
             style |-> freshStyleSuggestions(t),
             delivered |-> toGrammarSuggestions(result.errors)]) ]) ])

\* checkText(t) in a fresh process, and what checkGrammar of the route delivers for it
CheckFresh(t) ==
  /\ probe = NoProbe
  /\ \E checked \in { ProbeChecks[wordListPresent][t] } :
       probe' = [op |-> "checkText", text |-> t, collected |-> checked.collected,
                 errors |-> checked.errors, stats |-> checked.stats,
                 style |-> checked.style, delivered |-> checked.delivered]
  /\ UNCHANGED << styleCache, timers, validationCache, sentenceBoundaryCache, wordListPresent, calls,
                  lastValidation, endpointVars, editorVars >>

\* the errors handed to the overlap resolution: at most MaxErrors of them, with offsets up
\* to MaxOffset, lengths from 1 to MaxLength (a match is never empty) and these confidences;
\* ruleId is the position at which the error was collected
MaxErrors == 3
MaxOffset == 2
MaxLength == 2
ProbeConfidences == { Prior(70), Prior(80), Prior(90) }
ErrorShapes == [offset : 0..MaxOffset, length : 1..MaxLength, confidence : ProbeConfidences]

\* the end of checkText on the collected errors: sort by offset, then resolve overlaps
Resolve(n, shapes) ==
  /\ probe = NoProbe
  /\ \E collected \in { [ k \in 1..n |-> [ruleId |-> k, offset |-> shapes[k].offset,
                                           length |-> shapes[k].length,
                                           confidence |-> shapes[k].confidence] ] } :
       \E sorted \in { sortByOffset(collected) } :
         probe' = [op |-> "resolve", collected |-> collected, sorted |-> sorted,
                   errors |-> removeOverlappingErrors(sorted)]
  /\ UNCHANGED << styleCache, timers, validationCache, sentenceBoundaryCache, wordListPresent, calls,
                  lastValidation, endpointVars, editorVars >>

\* the texts split into sentences: up to MaxPieces of these pieces in a row, among them an
\* abbreviation, an initial, punctuation runs and blanks
MaxPieces == 5
SplitPieces == { "Dr. ", "J. ", "It is", "Many issues", ".", "!? ", " ", "etc." }
RECURSIVE Concat(_)
Concat(pieces) == IF Len(pieces) = 0 THEN "" ELSE Head(pieces) \o Concat(Tail(pieces))
SplitTexts == { Concat(pieces) : pieces \in UNION { [1..n -> SplitPieces] : n \in 0..MaxPieces } }

\* splitIntoSentences(t)
Split(t) ==
  /\ probe = NoProbe
  /\ probe' = [op |-> "split", text |-> t, sentences |-> splitIntoSentences(t)]
  /\ UNCHANGED << styleCache, timers, validationCache, sentenceBoundaryCache, wordListPresent, calls,
                  lastValidation, endpointVars, editorVars >>

\* texts whose words are separated by one or by several whitespace characters
ContextTexts == { "a b c d e f g h", "a   b c d e", "see the red fox run off" }
MaxSpan == 5

\* buildContextMetadata(t, offset, length)
Context(t, offset, length) ==
  /\ probe = NoProbe
  /\ offset + length <= Len(t)
  /\ probe' = [op |-> "context", text |-> t, offset |-> offset, length |-> length,
               meta |-> buildContextMetadata(t, offset, length)]
  /\ UNCHANGED << styleCache, timers, validationCache, sentenceBoundaryCache, wordListPresent, calls,
                  lastValidation, endpointVars, editorVars >>

(***************************************************************************)
(* Enhanced spelling engine (lib/enhanced-spelling): weighted edit         *)
(* distance, costs in tenths                                               *)
(***************************************************************************)
QWERTY_LAYOUT == << "qwertyuiop", "asdfghjkl", "zxcvbnm" >>

\* row and column of a key, both from 0; row -1 stands for null
getKeyPosition(char) ==
  LET rows == { r \in 1..Len(QWERTY_LAYOUT) :
                  \E c \in 1..Len(QWERTY_LAYOUT[r]) : CharAt(QWERTY_LAYOUT[r], c - 1) = char }
  IN  IF rows = {} THEN [row |-> -1, col |-> -1]
      ELSE LET r == MinOf(rows)
           IN  [row |-> r - 1,
                col |-> MinOf({ c \in 1..Len(QWERTY_LAYOUT[r]) : CharAt(QWERTY_LAYOUT[r], c - 1) = char }) - 1]

\* keyboardDistanceCache memoises this function by the pair of characters and never changes a value
getKeyboardDistance(char1, char2) ==
  LET pos1 == getKeyPosition(char1)
      pos2 == getKeyPosition(char2)
  IN  IF pos1.row = -1 \/ pos2.row = -1 THEN 10
      ELSE Abs(pos1.row - pos2.row) + Abs(pos1.col - pos2.col)

getSubstitutionCost(char1, char2) == IF getKeyboardDistance(char1, char2) <= 1 THEN 8 ELSE 10

\* dp[m][n] of the table: base cases dp[i][0] = i and dp[0][j] = j, a deletion or an insertion
\* inside the table 1.2, a substitution 0.8 or 1.0
calculateEditDistance(word1, word2) ==
  LET dp[i \in 0..Len(word1), j \in 0..Len(word2)] ==
        IF j = 0 THEN 10 * i
        ELSE IF i = 0 THEN 10 * j
        ELSE IF CharAt(word1, i - 1) = CharAt(word2, j - 1) THEN dp[i - 1, j - 1]
        ELSE Min(Min(dp[i - 1, j] + 12, dp[i, j - 1] + 12),
                 dp[i - 1, j - 1] + getSubstitutionCost(CharAt(word1, i - 1), CharAt(word2, j - 1)))
  IN  dp[Len(word1), Len(word2)]

\* the words and characters the distance is computed for
DistanceLetters == { "a", "s", "p" }
MaxWord == 3
DistanceWords == UNION { { Concat(q) : q \in [1..n -> DistanceLetters] } : n \in 0..MaxWord }

\* calculateEditDistance of w and of w with c inserted at pos, in the given argument order
Distance(w, c, pos, swapped) ==
  /\ probe = NoProbe
  /\ pos <= Len(w)
  /\ LET longer == Substring(w, 0, pos) \o c \o SubstringFrom(w, pos)
     IN  probe' = [op |-> "distance", word |-> w, char |-> c, pos |-> pos, swapped |-> swapped,
                   result |-> IF swapped THEN calculateEditDistance(longer, w)
                              ELSE calculateEditDistance(w, longer)]
  /\ UNCHANGED << styleCache, timers, validationCache, sentenceBoundaryCache, wordListPresent, calls,
                  lastValidation, endpointVars, editorVars >>

\* analyzeTone(t) of the tone route
Tone(t) ==
  /\ probe = NoProbe
  /\ probe' = [op |-> "analyzeTone", text |-> t, result |-> analyzeTone(t)]
  /\ UNCHANGED << styleCache, timers, validationCache, sentenceBoundaryCache, wordListPresent, calls,
                  lastValidation, endpointVars, editorVars >>

\* inputs are drawn only when no call is pending
WhenIdle(inputs) == IF probe = NoProbe THEN inputs ELSE {}
NextProbe ==
  \/ Reset
  \/ \E t \in WhenIdle(ProbeTexts \cup ToneTexts) : Tone(t)
  \/ \E n \in WhenIdle(0..MaxErrors) : \E shapes \in [1..n -> ErrorShapes] : Resolve(n, shapes)
  \/ \E t \in WhenIdle(SplitTexts) : Split(t)
  \/ \E w \in WhenIdle(DistanceWords), c \in DistanceLetters, pos \in 0..MaxWord, swapped \in BOOLEAN :
       Distance(w, c, pos, swapped)
  \/ \E t \in WhenIdle(ContextTexts) : \E offset \in 0..(Len(t) - 1), length \in 1..MaxSpan :
       Context(t, offset, length)
  \/ \E w \in WhenIdle(ProbeWords), k \in 1..MaxLimit : Suggest(w, k)
  \/ \E t \in WhenIdle(ProbeTexts) : CheckFresh(t)

\* the library functions are called in a process whose dictionary loaded its word list
InitProbe == Init /\ wordListPresent
SpecProbe == InitProbe /\ [][NextProbe]_vars

(***************************************************************************)
(* Direct calls of validateSuggestionInContext on contexts with distinct   *)
(* cache keys, enough of them to fill the validation cache.                *)
(***************************************************************************)
\* the contexts differ in rule and offset: context number n is that of rule n % 8 at offset n \div 8
MaxContexts == 208
CacheText == "I saw a lot of bugs today."
ContextNo(n) ==
  SuggestionContextOf(CacheText, n \div Len(contextAwareStyleRules), n \div Len(contextAwareStyleRules) + 1,
                      "many", contextAwareStyleRules[(n % Len(contextAwareStyleRules)) + 1])
CacheKeyNo == Table([ n \in 0..(MaxContexts - 1) |-> generateCacheKey(ContextNo(n)) ])
\* the number of contexts validated so far: contexts are first validated in increasing number
CallsMade == IF probe.op = "validate" THEN probe.next ELSE 0
CacheKeys(cache) == [ i \in 1..Len(cache) |-> cache[i].key ]

\* validateSuggestionInContext(ContextNo(n)); probe keeps the key, whether the call was a
\* hit, the keys cached before the call and the key of the preceding call when that was a hit
Validate(n) ==
  /\ probe.op \in {"none", "validate"}
  /\ \E r \in { validateSuggestionInContext(validationCache, sentenceBoundaryCache, ContextNo(n)) } :
       /\ validationCache' = r.vCache
       /\ sentenceBoundaryCache' = r.sbCache
  /\ probe' = [op |-> "validate", next |-> Max(CallsMade, n + 1), key |-> CacheKeyNo[n],
               hit |-> CacheHas(validationCache, CacheKeyNo[n]),
               before |-> CacheKeys(validationCache),
               prevHit |-> IF probe.op = "validate" /\ probe.hit THEN probe.key ELSE ""]
  /\ UNCHANGED << styleCache, timers, wordListPresent, calls, lastValidation, endpointVars, editorVars >>

\* the next call validates a new context, the newest one again or the oldest one still cached
NextCache ==
  \E n \in { CallsMade, CallsMade - 1, CallsMade - Len(validationCache) } \cap 0..(MaxContexts - 1) :
    Validate(n)

SpecCache == InitProbe /\ [][NextCache]_vars

(***************************************************************************)
(* The grammar-check route: POST with its Redis cache.  checkGrammar is    *)
(* taken at what a fresh engine delivers for the text; the id of a         *)
(* suggestion is random and left out.                                      *)
(***************************************************************************)
Absent == -1
EndpointTexts == { "", "We saw thab.", "I get a lot of bugs now." }
DocumentIds == { "doc1", "doc2" }
\* minConfidence of the request body: absent, 0.7 or 0.95
MinConfidences == { Absent, Prior(70), Prior(95) }
\* maxRisk of the request body: absent ("") or SAFE
MaxRisks == { "", "SAFE" }

\* the SHA-256 digest in hexadecimal is not computed: distinct texts of EndpointTexts get
\* distinct digests
createHash(text) ==
  CASE text = "" -> "e3b0c442"
    [] text = "We saw thab." -> "digest-1"
    [] text = "I get a lot of bugs now." -> "digest-2"
routeCacheKey(documentId, text) == "grammar:v3:" \o documentId \o ":" \o createHash(text)

EmptyStore == [ k \in {} |-> << >> ]
\* redis.setex(key, 3600, value)
setex(store, key, value) == (key :> value) @@ store
\* the entry of key is gone: its 3600 seconds have passed
expire(store, key) == [ k \in (DOMAIN store) \ {key} |-> store[k] ]

confidenceThreshold(minConfidence) ==
  IF minConfidence = Absent \/ minConfidence = 0 THEN Prior(50) ELSE minConfidence
riskFilterOf(maxRisk) == IF maxRisk = "" THEN "RISKY" ELSE maxRisk
\* riskOrder[r] || 3
riskLevel(r) == CASE r = "SAFE" -> 1 [] r = "MODERATE" -> 2 [] OTHER -> 3

\* the predicate of both filters of POST; a suggestion of checkGrammar has no validationRisk
\* field
passesFilters(suggestion, threshold, riskFilter) ==
  /\ ~(suggestion.confidence # 0 /\ suggestion.confidence < threshold)
  /\ ("validationRisk" \in DOMAIN suggestion /\ suggestion.validationRisk # "") =>
       riskLevel(suggestion.validationRisk) <= riskLevel(riskFilter)
filterSuggestions(list, threshold, riskFilter) ==
  LET keep == SortedSeq({ j \in 1..Len(list) : passesFilters(list[j], threshold, riskFilter) })
  IN  [ n \in 1..Len(keep) |-> list[keep[n]] ]

\* what checkGrammar(text) of the route returns from a fresh engine
EngineSuggestions == Table([ t \in EndpointTexts \ {""} |-> ProbeChecks[TRUE][t].delivered ])

\* POST.  readFails and writeFails: redis.get / redis.setex throws, which the handler catches.
Post(text, documentId, minConfidence, maxRisk, readFails, writeFails) ==
  /\ \E request \in { [text |-> text, documentId |-> documentId, minConfidence |-> minConfidence,
                      maxRisk |-> maxRisk] } :
       IF text = ""
       THEN /\ lastResponse' = [status |-> 400, request |-> request]
            /\ UNCHANGED redis
       ELSE \E cacheKey \in { routeCacheKey(documentId, text) } :
              IF ~readFails /\ cacheKey \in DOMAIN redis
              THEN /\ lastResponse' =
                        [status |-> 200, request |-> request, cached |-> TRUE,
                         suggestions |-> filterSuggestions(redis[cacheKey], confidenceThreshold(minConfidence),
                                                           riskFilterOf(maxRisk))]
                   /\ UNCHANGED redis
              ELSE \E filtered \in { filterSuggestions(EngineSuggestions[text],
                                                          confidenceThreshold(minConfidence),
                                                          riskFilterOf(maxRisk)) } :
                     /\ redis' = IF writeFails THEN redis ELSE setex(redis, cacheKey, filtered)
                     /\ lastResponse' = [status |-> 200, request |-> request, cached |-> FALSE,
                                         suggestions |-> filtered]
  /\ UNCHANGED << styleCache, timers, validationCache, sentenceBoundaryCache, wordListPresent, calls,
                  lastValidation, probe, editorVars >>

\* the time to live of an entry runs out
Expire(key) ==
  /\ key \in DOMAIN redis
  /\ redis' = expire(redis, key)
  /\ UNCHANGED << styleCache, timers, validationCache, sentenceBoundaryCache, wordListPresent, calls,
                  lastValidation, probe, lastResponse, editorVars >>

NextEndpoint ==
  \/ \E text \in EndpointTexts, documentId \in DocumentIds, minConfidence \in MinConfidences,
        maxRisk \in MaxRisks, readFails \in BOOLEAN, writeFails \in BOOLEAN :
       Post(text, documentId, minConfidence, maxRisk, readFails, writeFails)
  \/ \E key \in { routeCacheKey(d, t) : d \in DocumentIds, t \in EndpointTexts } : Expire(key)
SpecEndpoint == InitProbe /\ [][NextEndpoint]_vars

(***************************************************************************)
(* The editor panel: onCreate, onUpdate with the two debounced checks,     *)
(* applySuggestion, and the responses of the fetches, which arrive in any  *)
(* order.  A debounce delay is a timer that may fire at any later step.    *)
(***************************************************************************)
EditorTexts == { "", "We saw thab.", "I get a lot of bugs now." }
MaxEdits == 3

\* lodash debounce: a call replaces the pending call and restarts the delay; applied is the
\* number of replacements applied when the call was made
debounced(arg, applied) == [pending |-> TRUE, text |-> arg, applied |-> applied]
\* a cancel that leaves the pending call in place
cancelNothing(timer) == timer
\* debounced.cancel()
cancel(timer) == NoTimer

\* onUpdate: both debounced checks are called with editor.getText()
onUpdate(deb, text, applied) ==
  [deb EXCEPT !.grammar = debounced(text, applied), !.tone = debounced(text, applied)]

\* checkGrammar(arg) up to its fetch: a blank arg clears the suggestions, any other arg posts
\* the plain text of the current document
panelCheckGrammar(ed, reqs, arg, origin) ==
  IF Trim(arg) = ""
  THEN [editor |-> [ed EXCEPT !.shown = [some |-> TRUE, text |-> arg],
                              !.submitted = [some |-> TRUE, text |-> arg]],
        requests |-> reqs]
  ELSE [editor |-> [ed EXCEPT !.submitted = [some |-> TRUE, text |-> ed.text]],
        requests |-> Append(reqs, [kind |-> "grammar", origin |-> origin, text |-> ed.text,
                                   pending |-> TRUE])]
\* analyzeTone(arg) up to its fetch
panelAnalyzeTone(reqs, arg, origin) ==
  IF Trim(arg) = "" THEN reqs
  ELSE Append(reqs, [kind |-> "tone", origin |-> origin, text |-> arg, pending |-> TRUE])

\* the editor is created with its initial content; onCreate checks it at once
Create(t) ==
  /\ ~editor.created
  /\ \E checked \in { panelCheckGrammar([editor EXCEPT !.created = TRUE, !.text = t], requests, t, "create") } :
       /\ editor' = checked.editor
       /\ requests' = panelAnalyzeTone(checked.requests, t, "create")
  /\ UNCHANGED << styleCache, timers, validationCache, sentenceBoundaryCache, wordListPresent, calls,
                  lastValidation, probe, endpointVars, debounces >>

\* the user changes the text to t
Type(t) ==
  /\ editor.created
  /\ editor.edits < MaxEdits
  /\ t # editor.text
  /\ editor' = [editor EXCEPT !.text = t, !.edits = @ + 1]
  /\ debounces' = onUpdate(debounces, t, editor.applied)
  /\ UNCHANGED << styleCache, timers, validationCache, sentenceBoundaryCache, wordListPresent, calls,
                  lastValidation, probe, endpointVars, requests >>

\* the delay of debouncedCheckGrammar has passed
FireGrammar ==
  /\ debounces.grammar.pending
  /\ \E checked \in { panelCheckGrammar(editor, requests, debounces.grammar.text, "debounce") } :
       /\ editor' = checked.editor
       /\ requests' = checked.requests
  /\ debounces' = [debounces EXCEPT !.grammar = NoTimer,
                                    !.staleFired = @ \/ debounces.grammar.applied < editor.applied]
  /\ UNCHANGED << styleCache, timers, validationCache, sentenceBoundaryCache, wordListPresent, calls,
                  lastValidation, probe, endpointVars >>

\* the delay of debouncedAnalyzeTone has passed
FireTone ==
  /\ debounces.tone.pending
  /\ requests' = panelAnalyzeTone(requests, debounces.tone.text, "debounce")
  /\ debounces' = [debounces EXCEPT !.tone = NoTimer,
                                    !.staleFired = @ \/ debounces.tone.applied < editor.applied]
  /\ UNCHANGED << styleCache, timers, validationCache, sentenceBoundaryCache, wordListPresent, calls,
                  lastValidation, probe, endpointVars, editor >>

\* applySuggestion of a displayed suggestion that is not rated RISKY or that the user confirms;
\* t is the text after the replacement.  The replacement triggers onUpdate, then the pending
\* debounced checks are cancelled and both checks run at once.
ApplySuggestion(t) ==
  /\ editor.created
  /\ editor.edits < MaxEdits
  /\ editor.shown.some
  /\ editor.shown.text # ""
  /\ Len(EngineSuggestions[editor.shown.text]) > 0
  /\ t # editor.text
  /\ \E updated \in { onUpdate(debounces, t, editor.applied) } :
       debounces' = [updated EXCEPT !.grammar = cancel(@), !.tone = cancel(@),
                                    !.cancelledEarlier = @ \/ debounces.grammar.pending]
  /\ \E checked \in { panelCheckGrammar([editor EXCEPT !.text = t, !.edits = @ + 1, !.applied = @ + 1],
                                       requests, t, "apply") } :
       /\ editor' = checked.editor
       /\ requests' = panelAnalyzeTone(checked.requests, t, "apply")
  /\ UNCHANGED << styleCache, timers, validationCache, sentenceBoundaryCache, wordListPresent, calls,
                  lastValidation, probe, endpointVars >>

\* the response of fetch i arrives: setSuggestions and applyGrammarHighlights for a grammar
\* check, onToneChange for a tone analysis
Respond(i) ==
  /\ requests[i].pending
  /\ requests' = [requests EXCEPT ![i].pending = FALSE]
  /\ editor' = IF requests[i].kind = "grammar"
               THEN [editor EXCEPT !.shown = [some |-> TRUE, text |-> requests[i].text]]
               ELSE [editor EXCEPT !.tone = [some |-> TRUE, text |-> requests[i].text]]
  /\ UNCHANGED << styleCache, timers, validationCache, sentenceBoundaryCache, wordListPresent, calls,
                  lastValidation, probe, endpointVars, debounces >>

NextEditor ==
  \/ \E t \in EditorTexts : Create(t)
  \/ \E t \in EditorTexts : Type(t)
  \/ FireGrammar
  \/ FireTone
  \/ \E t \in EditorTexts : ApplySuggestion(t)
  \/ \E i \in 1..Len(requests) : Respond(i)
SpecEditor == InitProbe /\ [][NextEditor]_vars

(***************************************************************************)
(* Properties of the server process                                        *)
(***************************************************************************)
\* the half-open ranges [offset, offset + length) of two errors intersect
RangesIntersect(a, b) == a.offset < b.offset + b.length /\ b.offset < a.offset + a.length
\* the calls that ran checkText to its return without an injected fault
ReturnedCalls == { c \in 1..Len(calls) : calls[c].pc = "returned" }
PlainCalls == { c \in ReturnedCalls : calls[c].fault = "none" }

\* C1: no two suggestions of a checkText result have intersecting ranges
NoOverlap ==
  \A c \in ReturnedCalls :
    \A a, b \in 1..Len(calls[c].result.errors) :
      a # b => ~RangesIntersect(calls[c].result.errors[a], calls[c].result.errors[b])
\* a call has returned whose collected errors contained an intersecting pair
NoOverlapWitness ==
  \E c \in ReturnedCalls :
    \E a, b \in 1..Len(calls[c].result.collected) :
      a # b /\ RangesIntersect(calls[c].result.collected[a], calls[c].result.collected[b])

\* C2: every returned suggestion lies inside the text and records the text of its range
OffsetsValid ==
  \A c \in ReturnedCalls :
    \A k \in 1..Len(calls[c].result.errors) :
      LET e == calls[c].result.errors[k]
      IN  /\ 0 <= e.offset
          /\ e.length > 0
          /\ e.offset + e.length <= Len(Texts[calls[c].text])
          /\ Substring(Texts[calls[c].text], e.offset, e.offset + e.length) = e.text

\* C3: no suggestion judged RISKY with adjusted confidence below 0.6 is in the list pushed by
\* processWithContextAwareStyleRules, in the processor's answer or in the checkText result
RiskGate ==
  \A c \in 1..Len(calls) :
    /\ \A k \in 1..Len(calls[c].suggestions) :
         ~(calls[c].suggestions[k].validation.risk = "RISKY"
           /\ calls[c].suggestions[k].validation.confidence < Prior(60))
    /\ \A k \in 1..Len(calls[c].style) :
         ~(calls[c].style[k].validationRisk = "RISKY" /\ calls[c].style[k].confidence < Prior(60))
    /\ \A k \in 1..Len(calls[c].result.errors) :
         ~(calls[c].result.errors[k].validationRisk = "RISKY"
           /\ calls[c].result.errors[k].confidence < Prior(60))
\* a call has returned after the gate skipped one of its validated suggestions
RiskGateWitness == \E c \in ReturnedCalls : calls[c].skipped > 0

\* C4: two calls with the same text return the same suggestions in the same order
Deterministic ==
  \A c, d \in PlainCalls :
    calls[c].text = calls[d].text => calls[c].result.errors = calls[d].result.errors

\* C5: every call returns what it would return run alone in a fresh process
SameAsFresh ==
  \A c \in PlainCalls : calls[c].result.errors = FreshErrors[wordListPresent][calls[c].text]

\* C6: validateSuggestionInContext returns what an uncached performValidation computes
CacheTransparent == lastValidation.some => lastValidation.returned = lastValidation.uncached

\* C7: with the word list missing no dictionary-based spelling suggestion is reported
MissingWordListSilent ==
  ~wordListPresent =>
    \A c \in ReturnedCalls :
      \A k \in 1..Len(calls[c].result.errors) : calls[c].result.errors[k].ruleId # "dictionary"

\* C8: a call in which a rule's replacement function throws still completes normally
ThrowingRuleIsolated ==
  \A c \in 1..Len(calls) : calls[c].fault \in ThrowingRuleIds => calls[c].pc # "rejected"

\* C9: when context-aware style processing fails, the matches of the problematic style rules
\* under plain pattern matching are among the collected suggestions
FallbackOnStyleFailure ==
  \A c \in ReturnedCalls :
    calls[c].fault = "style" =>
      SeqToSet(FallbackErrors[calls[c].text]) \subseteq SeqToSet(calls[c].result.collected)

\* C10: checking the text edited by a context-aware suggestion never yields a suggestion of
\* the same rule at the same offset
NoFixLoop ==
  \A c \in ReturnedCalls :
    calls[c].fixOf.call # 0 =>
      \A k \in 1..Len(calls[c].result.errors) :
        ~(calls[c].result.errors[k].ruleId = calls[c].fixOf.ruleId
          /\ calls[c].result.errors[k].offset = calls[c].fixOf.offset)

\* C28: a validation result with risk RISKY has adjusted confidence at most 0.3, and no
\* suggestion rated RISKY is in the list pushed by processWithContextAwareStyleRules, in the
\* processor's answer or in the checkText result
RiskyNeverShown ==
  /\ (lastValidation.some /\ lastValidation.returned.risk = "risky") =>
       lastValidation.returned.confidence <= Prior(30)
  /\ \A c \in 1..Len(calls) :
       /\ \A k \in 1..Len(calls[c].suggestions) : calls[c].suggestions[k].validation.risk # "RISKY"
       /\ \A k \in 1..Len(calls[c].style) : calls[c].style[k].validationRisk # "RISKY"
       /\ \A k \in 1..Len(calls[c].result.errors) : calls[c].result.errors[k].validationRisk # "RISKY"
\* the latest validation judged its suggestion RISKY, and the call that asked for it has
\* returned with that suggestion skipped and another suggestion delivered
RiskyNeverShownWitness ==
  /\ lastValidation.some
  /\ lastValidation.returned.risk = "risky"
  /\ \E c \in ReturnedCalls : calls[c].skipped > 0 /\ Len(calls[c].result.errors) > 0

(***************************************************************************)
(* Properties of the library functions (SpecProbe)                         *)
(***************************************************************************)
\* C11: suggestions(w, k) contains every dictionary word d at Levenshtein distance exactly 1
\* from a word w that is not in the dictionary, for every limit k >= 1
SuggestionsContainNeighbours ==
  probe.op = "suggestions" /\ ~isValid(LoadedWords(wordListPresent), probe.word) =>
    \A d \in SeqToSet(LoadedWords(wordListPresent)) :
      levenshtein(probe.word, d) = 1 => d \in SeqToSet(probe.result)

\* C12: checkText("") returns no suggestion and stats in which every counter is zero
EmptyTextAllZero ==
  probe.op = "checkText" /\ probe.text = "" =>
    /\ probe.errors = << >>
    /\ probe.stats.totalChecks = 0
    /\ probe.stats.grammarErrors = 0
    /\ probe.stats.spellingErrors = 0
    /\ probe.stats.styleErrors = 0
    /\ probe.stats.enhancedSpelling.wordsChecked = 0
    /\ probe.stats.enhancedSpelling.ruleBasedErrors = 0
    /\ probe.stats.enhancedSpelling.dictionaryErrors = 0

\* the nouns the specification gives as uncountable
UncountableNouns == {"feedback"}
\* the word that follows index from in text, lower-cased, without what is not a letter
HeadNoun(text, from) ==
  LET start == NextIn(text, from, LowerSet \cup UpperSet)
  IN  ToLowerCase(Substring(text, start, RunEnd(text, start, LowerSet \cup UpperSet)))
\* the suggestions of the enhanced style processor for rule id at offset start
StyleOutputAt(id, start) ==
  { probe.style[n].replacement : n \in { j \in 1..Len(probe.style) :
                                           probe.style[j].ruleId = id /\ probe.style[j].start = start } }
\* C15: for every occurrence of "a lot of" the enhanced style processor outputs "much" when
\* the following word is an uncountable noun, "many" when it is a plural or a known countable
\* singular, and nothing otherwise
ALotOfByHeadNoun ==
  probe.op = "checkText" =>
    \A m \in SeqToSet(FindAll(probe.text, contextAwareStyleRules[2].pattern)) :
      LET noun == HeadNoun(probe.text, m.end)
          out == StyleOutputAt("a-lot-of-contextual", m.index)
      IN  IF noun \in UncountableNouns THEN out = {"much"}
          ELSE IF noun \in clearlyCountablePlurals \cup commonPluralizable THEN out = {"many"}
          ELSE out = {}

\* C16: every match, at any offset from 0, of a contextual rule that always returns a
\* replacement yields a suggestion of the enhanced style processor
EveryMatchEvaluated ==
  probe.op = "checkText" =>
    \A k \in 5..8 :
      \A m \in SeqToSet(FindAll(probe.text, contextAwareStyleRules[k].pattern)) :
        StyleOutputAt(contextAwareStyleRules[k].id, m.index) # {}

\* C17: no dictionary error is reported for a token inside the span of a grammar-rule or
\* style-rule match collected for the same text
DictionarySkipsCovered ==
  probe.op = "checkText" =>
    \A e \in SeqToSet(probe.collected) :
      e.ruleId = "dictionary" =>
        ~\E g \in SeqToSet(probe.collected) :
            /\ g.type \in {"grammar", "style"}
            /\ g.offset <= e.offset
            /\ e.offset + e.length <= g.offset + g.length

\* C18: the replacement list delivered for a dictionary-based suggestion holds the ranked
\* candidates found for the token, up to 3, best first
DictionaryCandidatesDelivered ==
  probe.op = "checkText" =>
    \A s \in SeqToSet(probe.delivered) :
      s.ruleId = "dictionary" =>
        LET sugg == suggestions(LoadedWords(wordListPresent),
                                Substring(probe.text, s.offset, s.offset + s.length), 3)
        IN  Len(sugg) >= 1 => s.replacements = sugg

\* C13: analyzeTone("") returns "neutral"
EmptyTextNeutral ==
  probe.op = "analyzeTone" /\ probe.text = "" => probe.result = "neutral"

\* C14: the list returned by checkText is ordered by non-decreasing offset, also after an
\* in-place replacement of a kept error by a higher-confidence one
ResultSortedByOffset ==
  probe.op \in {"resolve", "checkText"} =>
    \A a, b \in 1..Len(probe.errors) : a < b => probe.errors[a].offset <= probe.errors[b].offset
\* a kept error was replaced in place by a later, higher-confidence one that starts at a
\* larger offset, and another error was kept after it
ResultSortedWitness ==
  /\ probe.op = "resolve"
  /\ \E a, b, c \in 1..Len(probe.sorted) :
       /\ a < b /\ b < c
       /\ probe.sorted[a].offset < probe.sorted[b].offset
       /\ doErrorsOverlap(probe.sorted[a], probe.sorted[b])
       /\ probe.sorted[b].confidence > probe.sorted[a].confidence
       /\ probe.errors = << probe.sorted[b], probe.sorted[c] >>

\* C19: of two collected errors with intersecting ranges, the one with the lower confidence
\* (on equal confidence, the later one in the offset-sorted order) is not in the output
LoserNeverKept ==
  probe.op = "resolve" =>
    \A a, b \in 1..Len(probe.sorted) :
      /\ a # b
      /\ RangesIntersect(probe.sorted[a], probe.sorted[b])
      /\ \/ probe.sorted[a].confidence > probe.sorted[b].confidence
         \/ (probe.sorted[a].confidence = probe.sorted[b].confidence /\ a < b)
      => probe.sorted[b] \notin SeqToSet(probe.errors)

\* C21: a boundary of splitIntoSentences is marked complete only if its text ends in terminal
\* punctuation, has at least 2 tokens, and has both a subject and a verb indicator
CompleteOnlyWithSubjectAndVerb ==
  probe.op = "split" =>
    \A n \in 1..Len(probe.sentences) :
      probe.sentences[n].isComplete =>
        LET trimmed == Trim(probe.sentences[n].text)
            words == SplitWS(ToLowerCase(trimmed))
        IN  /\ EndsWithTerminal(trimmed)
            /\ Len(words) >= 2
            /\ hasBasicSubject(words)
            /\ hasBasicVerb(words)

\* C29: the boundaries of splitIntoSentences tile a prefix of the text: the first starts at
\* 0, each has start < end <= Len(text), and each starts where the previous one ends
BoundariesTile ==
  probe.op = "split" =>
    /\ Len(probe.sentences) > 0 => probe.sentences[1].start = 0
    /\ \A n \in 1..Len(probe.sentences) :
         /\ probe.sentences[n].start < probe.sentences[n].end
         /\ probe.sentences[n].end <= Len(probe.text)
         /\ n > 1 => probe.sentences[n].start = probe.sentences[n - 1].end
\* a text was split into two boundaries, the first holding an abbreviation that was not
\* taken for a sentence end and ending in a punctuation run, the second starting with a blank
BoundariesTileWitness ==
  /\ probe.op = "split"
  /\ Len(probe.sentences) = 2
  /\ Includes(probe.sentences[1].text, "Dr. ")
  /\ EndsWith(probe.sentences[1].text, "!?")
  /\ CharAt(probe.text, probe.sentences[2].start) = " "

\* the positions at which a whitespace-separated word of text starts, and the word there
WordStarts(text) ==
  { i \in 0..(Len(text) - 1) : ~IsSpace(CharAt(text, i)) /\ (i = 0 \/ IsSpace(CharAt(text, i - 1))) }
WordAt(text, i) == Substring(text, i, NextIn(text, i, SpaceSet))
WordsStartingIn(text, S) == [ n \in 1..Cardinality(S) |-> WordAt(text, SortedSeq(S)[n]) ]
LastUpTo(q, n) == SubSeq(q, Max(1, Len(q) - n + 1), Len(q))
FirstUpTo(q, n) == SubSeq(q, 1, Min(Len(q), n))
\* the span [offset, offset + length) starts at a word start, ends at a word end and holds
\* more than one word
MultiWordSpan(text, offset, length) ==
  /\ offset \in WordStarts(text)
  /\ ~IsSpace(CharAt(text, offset + length - 1))
  /\ (offset + length = Len(text) \/ IsSpace(CharAt(text, offset + length)))
  /\ Cardinality({ i \in WordStarts(text) : i >= offset /\ i < offset + length }) > 1

\* C22: for a multi-word span, wordsBefore are the up to 3 words immediately before the span's
\* first word and wordsAfter the up to 3 words immediately after position offset + length,
\* also when words are separated by more than one whitespace character
WordsAroundSpan ==
  (probe.op = "context" /\ MultiWordSpan(probe.text, probe.offset, probe.length)) =>
    /\ probe.meta.wordsBefore =
         LastUpTo(WordsStartingIn(probe.text, { i \in WordStarts(probe.text) : i < probe.offset }), 3)
    /\ probe.meta.wordsAfter =
         FirstUpTo(WordsStartingIn(probe.text,
                     { i \in WordStarts(probe.text) : i >= probe.offset + probe.length }), 3)

\* C23: the distance between a word and the word obtained by inserting one character at any
\* position of it is 1.2 (12 tenths), in either argument order
InsertionCostsTwelve ==
  probe.op = "distance" => probe.result = 12

\* C25: every collected error that is absent from the resolved list intersects an error that
\* is present in it and whose confidence is at least as high
NoNeedlessLoss ==
  probe.op = "resolve" =>
    \A k \in 1..Len(probe.collected) :
      probe.collected[k] \notin SeqToSet(probe.errors) =>
        \E e \in SeqToSet(probe.errors) :
          RangesIntersect(probe.collected[k], e) /\ e.confidence >= probe.collected[k].confidence

\* C30: in a checkText result stats.spellingErrors is the sum of the rule-based and the
\* dictionary errors counted by the enhanced spelling checker
SpellingStatsAddUp ==
  probe.op = "checkText" =>
    probe.stats.spellingErrors =
      probe.stats.enhancedSpelling.ruleBasedErrors + probe.stats.enhancedSpelling.dictionaryErrors

(***************************************************************************)
(* Properties of the validation cache (SpecCache)                          *)
(***************************************************************************)
\* the key first validated earliest among keys
EarliestInserted(keys) ==
  CacheKeyNo[MinOf({ n \in DOMAIN CacheKeyNo : CacheKeyNo[n] \in keys })]
\* C20: the validation cache never holds more than 201 entries; a call that misses evicts an
\* entry only when it finds more than 200, and then the one inserted earliest among those
\* present; a hit changes neither the entries nor their order
ValidationCacheBounded ==
  /\ Len(validationCache) <= ValidationCacheLimit + 1
  /\ probe.op = "validate" =>
       LET before == SeqToSet(probe.before)
           after == SeqToSet(CacheKeys(validationCache))
       IN  IF probe.hit THEN CacheKeys(validationCache) = probe.before
           ELSE /\ after \ before = {probe.key}
                /\ before \ after = IF Len(probe.before) > ValidationCacheLimit
                                    THEN {EarliestInserted(before)} ELSE {}
\* the cache held 201 entries, its oldest entry was hit, and the next call, a miss, evicted
\* that entry and left 201 entries
ValidationCacheWitness ==
  /\ probe.op = "validate"
  /\ ~probe.hit
  /\ Len(probe.before) = ValidationCacheLimit + 1
  /\ probe.prevHit = probe.before[1]
  /\ probe.prevHit \notin SeqToSet(CacheKeys(validationCache))
  /\ Len(validationCache) = ValidationCacheLimit + 1

(***************************************************************************)
(* Properties of the grammar-check route (SpecEndpoint)                    *)
(***************************************************************************)
\* C27: the suggestions of a response are the fresh engine result for the request's text
\* filtered with the request's own minConfidence and maxRisk, cached or not
ResponseIsFreshFiltered ==
  lastResponse.status = 200 =>
    lastResponse.suggestions =
      filterSuggestions(EngineSuggestions[lastResponse.request.text],
                        confidenceThreshold(lastResponse.request.minConfidence),
                        riskFilterOf(lastResponse.request.maxRisk))

(***************************************************************************)
(* Properties of the editor panel (SpecEditor)                             *)
(***************************************************************************)
GrammarRequests == { i \in 1..Len(requests) : requests[i].kind = "grammar" }

DisplayedIsLatest ==
  (editor.submitted.some /\ \A i \in GrammarRequests : ~requests[i].pending) =>
    editor.shown = editor.submitted

====
